---------------------------- MODULE Spec2Model ----------------------------
(***************************************************************************)
(* Model of the reconciliation / sync / migration core of the receipt      *)
(* analytics dashboard (ReceiptAnalytics component, src/unnamed/part_000). *)
(*                                                                         *)
(* Receipts are kept in the state by their index into a fixed catalogue    *)
(* (Receipt(i)); the algorithms read the catalogued fields exactly where   *)
(* the code reads the receipt's fields.  A timestamp is a sequence of      *)
(* one-character strings so that the regular expressions of the code can   *)
(* be evaluated character by character.                                    *)
(***************************************************************************)
EXTENDS Integers, Sequences, FiniteSets, TLC

(***************************************************************************)
(* Bounds of the model                                                     *)
(***************************************************************************)
\* longest log / batch drawn for the pure reconciliation specification
MaxExisting == 2
MaxIncoming == 3

(***************************************************************************)
(* Characters and timestamps                                               *)
(***************************************************************************)
Letters ==
  {"A","B","C","D","E","F","G","H","I","J","K","L","M","N","O","P","Q","R",
   "S","T","U","V","W","X","Y","Z","a","b","c","d","e","f","g","h","i","j",
   "k","l","m","n","o","p","q","r","s","t","u","v","w","x","y","z"}

Digits == {"0","1","2","3","4","5","6","7","8","9"}

\* the value of a decimal digit
Code10(c) ==
  CASE c = "0" -> 0 [] c = "1" -> 1 [] c = "2" -> 2 [] c = "3" -> 3 [] c = "4" -> 4
    [] c = "5" -> 5 [] c = "6" -> 6 [] c = "7" -> 7 [] c = "8" -> 8 [] c = "9" -> 9

\* the characters \s and String.prototype.trim treat as white space
Whitespace == {" ", "\t"}

TS_Oct18_0115PM == <<"O","c","t"," ","1","8"," ","1",":","1","5"," ","P","M">>
TS_Oct18_1159PM == <<"O","c","t"," ","1","8"," ","1","1",":","5","9"," ","P","M">>
TS_Oct19_0115PM == <<"O","c","t"," ","1","9"," ","1",":","1","5"," ","P","M">>
TS_Oct20_0900AM == <<"O","c","t"," ","2","0"," ","9",":","0","0"," ","A","M">>
TS_Blank        == <<" "," ">>
\* the property key JavaScript derives from an undefined date
TS_Undefined    == <<"u","n","d","e","f","i","n","e","d">>

\* number of small catalogued receipts; larger indexes are bulk receipts
NSmall == 7

SmallCatalog ==
  <<[hasDate |-> TRUE,  date |-> TS_Oct18_0115PM, clout |-> 5],
    [hasDate |-> TRUE,  date |-> TS_Oct18_1159PM, clout |-> 3],
    [hasDate |-> TRUE,  date |-> TS_Oct19_0115PM, clout |-> -2],
    [hasDate |-> TRUE,  date |-> TS_Oct18_0115PM, clout |-> 7],
    [hasDate |-> TRUE,  date |-> TS_Blank,        clout |-> 1],
    [hasDate |-> FALSE, date |-> <<>>,            clout |-> 4],
    [hasDate |-> TRUE,  date |-> <<>>,            clout |-> 6]>>

\* indexes above DayBase are receipts of consecutive days, one per day
DayBase == 1000

\* "Oct <day> 9:00 AM" for a two-digit day
TS_OctDay(day) ==
  <<"O","c","t"," ">> \o <<CHOOSE c \in Digits : Code10(c) = day \div 10,
                            CHOOSE c \in Digits : Code10(c) = day % 10>>
    \o <<" ","9",":","0","0"," ","A","M">>

\* the receipt object behind an index of the catalogue
Receipt(i) ==
  IF i <= NSmall THEN SmallCatalog[i]
  ELSE IF i > DayBase
  THEN [hasDate |-> TRUE, date |-> TS_OctDay(9 + i - DayBase), clout |-> 1]
  ELSE [hasDate |-> TRUE, date |-> TS_Oct20_0900AM, clout |-> i]

\* length of the run of characters of class cls starting at position i
RECURSIVE RunLen(_, _, _)
RunLen(s, i, cls) ==
  IF i <= Len(s) /\ s[i] \in cls THEN 1 + RunLen(s, i + 1, cls) ELSE 0

\* dateStr.match(/^([A-Za-z]+\s+\d+)/) ? match[1] : dateStr
normalizeDateToDay_NoDigits(dateStr) ==
  LET l == RunLen(dateStr, 1, Letters)
      w == RunLen(dateStr, l + 1, Whitespace)
  IN  IF l > 0 /\ w > 0 THEN SubSeq(dateStr, 1, l + w) ELSE dateStr

normalizeDateToDay(dateStr) ==
  LET l == RunLen(dateStr, 1, Letters)
      w == RunLen(dateStr, l + 1, Whitespace)
      d == RunLen(dateStr, l + w + 1, Digits)
  IN  IF l > 0 /\ w > 0 /\ d > 0 THEN SubSeq(dateStr, 1, l + w + d) ELSE dateStr

\* normalizedDate.replace(/[^a-zA-Z0-9]/g, '_')
dateId(normalizedDate) ==
  [i \in 1..Len(normalizedDate) |->
     IF normalizedDate[i] \in Letters \cup Digits THEN normalizedDate[i] ELSE "_"]

\* !receipt.date || !receipt.date.trim()
MissingDate(i) ==
  \/ ~Receipt(i).hasDate
  \/ \A k \in 1..Len(Receipt(i).date) : Receipt(i).date[k] \in Whitespace

\* the object key receipt.date is used as (existingByDate[receipt.date])
DateKey(i) == IF Receipt(i).hasDate THEN Receipt(i).date ELSE TS_Undefined

(***************************************************************************)
(* Event Deduplicator: the reconciliation loop of handlePaste              *)
(***************************************************************************)
\* existingByDate after the loop over the in-memory log
ExistingByDate(log, key) ==
  Cardinality({k \in 1..Len(log) : DateKey(log[k]) = key})

\* the accumulators before the first incoming receipt
ReconcileStart(existing) ==
  [existingByDate |-> [k \in {DateKey(existing[j]) : j \in 1..Len(existing)} |->
                         ExistingByDate(existing, k)],
   incomingPositionByDate |-> << >>,
   toAdd |-> << >>,
   skippedCount |-> 0]

\* value of a counter object at a key, 0 when the key is not set
CountAt(f, key) == IF key \in DOMAIN f THEN f[key] ELSE 0

\* the key's counter set to v
SetAt(f, key, v) ==
  IF key \in DOMAIN f THEN [f EXCEPT ![key] = v] ELSE f @@ (key :> v)

\* a mutant of the loop body: a receipt is taken as new without looking at
\* the number of receipts the log already holds for its timestamp
ReconcileStep_IgnoreExisting(acc, r) ==
  IF MissingDate(r)
  THEN [acc EXCEPT !.skippedCount = @ + 1]
  ELSE [acc EXCEPT !.toAdd = Append(@, r)]

\* a mutant of the loop body: a receipt with a missing date is not skipped
ReconcileStep_NoSkip(acc, r) ==
  LET key == DateKey(r)
      positionInDate == CountAt(acc.incomingPositionByDate, key)
      existingCount == CountAt(acc.existingByDate, key)
      pos == SetAt(acc.incomingPositionByDate, key, positionInDate + 1)
  IN  IF positionInDate >= existingCount
      THEN [acc EXCEPT !.toAdd = Append(@, r),
                       !.existingByDate = SetAt(@, key, existingCount + 1),
                       !.incomingPositionByDate = pos]
      ELSE [acc EXCEPT !.incomingPositionByDate = pos]

\* a mutant of the loop body: the position test is strict
ReconcileStep_Strict(acc, r) ==
  IF MissingDate(r)
  THEN [acc EXCEPT !.skippedCount = @ + 1]
  ELSE LET key == DateKey(r)
           positionInDate == CountAt(acc.incomingPositionByDate, key)
           existingCount == CountAt(acc.existingByDate, key)
           pos == SetAt(acc.incomingPositionByDate, key, positionInDate + 1)
       IN  IF positionInDate > existingCount
           THEN [acc EXCEPT !.toAdd = Append(@, r),
                            !.existingByDate = SetAt(@, key, existingCount + 1),
                            !.incomingPositionByDate = pos]
           ELSE [acc EXCEPT !.incomingPositionByDate = pos]

\* the body of parsed.receipts.forEach((receipt) => ...)
ReconcileStep(acc, r) ==
  IF MissingDate(r)
  THEN [acc EXCEPT !.skippedCount = @ + 1]
  ELSE LET key == DateKey(r)
           positionInDate == CountAt(acc.incomingPositionByDate, key)
           existingCount == CountAt(acc.existingByDate, key)
           pos == SetAt(acc.incomingPositionByDate, key, positionInDate + 1)
       IN  IF positionInDate >= existingCount
           THEN [acc EXCEPT !.toAdd = Append(@, r),
                            !.existingByDate = SetAt(@, key, existingCount + 1),
                            !.incomingPositionByDate = pos]
           ELSE [acc EXCEPT !.incomingPositionByDate = pos]

\* the loop over incoming[lo..hi], in order.  The range is split in halves
\* and the first half is computed before the second half is entered (the
\* test on it is always true), to keep the evaluation shallow for long
\* batches.
RECURSIVE ReconcileLoop(_, _, _, _)
ReconcileLoop(acc, incoming, lo, hi) ==
  IF lo > hi THEN acc
  ELSE IF lo = hi THEN ReconcileStep(acc, incoming[lo])
  ELSE LET mid == (lo + hi) \div 2
           firstHalf == ReconcileLoop(acc, incoming, lo, mid)
       IN  IF firstHalf.skippedCount >= 0
           THEN ReconcileLoop(firstHalf, incoming, mid + 1, hi)
           ELSE firstHalf

\* reconcile(existing, incoming) -> (toAdd, skippedCount)
Reconcile(existing, incoming) ==
  ReconcileLoop(ReconcileStart(existing), incoming, 1, Len(incoming))

(***************************************************************************)
(* State                                                                   *)
(***************************************************************************)
VARIABLES
  pd,                 \* the pure reconciliation run: inputs, stage and results
  user,               \* TRUE when an identity is signed in
  receipts,           \* React state: the in-memory log
  bounties,           \* React state: concept name -> list of bounties
  untaggedBounties,   \* React state
  isLoading,          \* React state
  deleteProgress,     \* React state: {current, total}
  deleteProgressRef,  \* the ref polled by the progress timer
  poll,               \* progress timers: the current one, and leaked ones
  localStorage,       \* receipt_data / bounty_data / untagged_bounties
  receipts_by_date,   \* store: bucket documents, id -> itemCount
  items,              \* store: item documents, id -> (position -> receipt)
  metadata,           \* store: users/<uid>/metadata/settings
  legacyReceipts,     \* store: the old flat collection users/<uid>/receipts
  userData,           \* store: the really old document userData/<uid>
  load,               \* the loadFromFirestore task
  saves,              \* saveToStorage tasks awaiting batch.commit()
  clear,              \* the background deletion task of handleClear
  failures,           \* storage failures injected so far
  converted,          \* history: legacy sources whose conversion completed
  userOps,            \* user operations performed so far
  alert               \* the alert() the last step showed, "none" if none

storeVars == <<receipts_by_date, items, metadata, legacyReceipts, userData>>
memVars == <<receipts, bounties, untaggedBounties>>
progressVars == <<deleteProgress, deleteProgressRef, poll>>
sysVars == <<user, memVars, isLoading, progressVars, localStorage, storeVars,
             load, saves, clear, failures, converted, userOps, alert>>
vars == <<pd, sysVars>>

(***************************************************************************)
(* Bounds of the system model                                              *)
(***************************************************************************)
\* longest in-memory log a paste may produce
MaxLog == 2
\* longest pasted batch
MaxPaste == 2
\* longest list of receipts pasted together with bounties
MaxPasteWithBounties == 1
\* saveToStorage commits that may be in flight together
MaxPending == 1
\* storage failures injected in one behaviour
MaxFailures == 1
\* user operations (sign in, sign out, paste, clear) in one behaviour
MaxUserOps == 4

\* the store's hard ceiling on the operations of one atomic commit
StoreBatchCeiling == 500

\* all sequences over S of length at most n
SeqsUpTo(S, n) == UNION {[1..k -> S] : k \in 0..n}

\* the empty object {}
EmptyObject == [c \in {} |-> << >>]

\* { ...a, ...b }: also what set(..., {merge: true}) does to a map field
Merge(a, b) ==
  [c \in DOMAIN a \cup DOMAIN b |-> IF c \in DOMAIN b THEN b[c] ELSE a[c]]

NoProgress == [current |-> 0, total |-> 0]

NoMetadata == [exists |-> FALSE, bounties |-> EmptyObject, untaggedBounties |-> << >>]

NoUserData ==
  [exists |-> FALSE, receipts |-> << >>, bounties |-> EmptyObject,
   untaggedBounties |-> << >>]

NoLocal ==
  [has |-> FALSE, receipts |-> << >>, bounties |-> EmptyObject,
   untaggedBounties |-> << >>]

IdleLoad ==
  [pc |-> "idle", dates |-> << >>, loaded |-> << >>, src |-> "none",
   data |-> << >>,
   dataBounties |-> EmptyObject, dataUntagged |-> << >>, committed |-> 0]

IdleClear ==
  [pc |-> "idle", docs |-> << >>, chunk |-> 0, sub |-> << >>, alone |-> TRUE,
   orphans |-> << >>]

\* the minimum and maximum of a non-empty set of integers
Min(S) == CHOOSE x \in S : \A y \in S : x <= y
Max(S) == CHOOSE x \in S : \A y \in S : y <= x

(***************************************************************************)
(* Document order of the store (documents are listed by document id)       *)
(***************************************************************************)
AsciiOrder ==
  <<"0","1","2","3","4","5","6","7","8","9",
    "A","B","C","D","E","F","G","H","I","J","K","L","M","N","O","P","Q","R",
    "S","T","U","V","W","X","Y","Z","_",
    "a","b","c","d","e","f","g","h","i","j","k","l","m","n","o","p","q","r",
    "s","t","u","v","w","x","y","z">>

Code(c) == CHOOSE k \in 1..Len(AsciiOrder) : AsciiOrder[k] = c

\* a < b as strings
RECURSIVE LexLess(_, _)
LexLess(a, b) ==
  IF a = << >> THEN b # << >>
  ELSE IF b = << >> THEN FALSE
  ELSE IF Head(a) = Head(b) THEN LexLess(Tail(a), Tail(b))
  ELSE Code(Head(a)) < Code(Head(b))

\* the ids of S in document order
SortedIds(S) ==
  LET rank == [x \in S |-> Cardinality({y \in S : LexLess(y, x)})]
  IN  [n \in 1..Cardinality(S) |-> CHOOSE x \in S : rank[x] = n - 1]

\* the concatenation of a sequence of sequences (Array.prototype.flat)
RECURSIVE Flat(_)
Flat(ss) == IF ss = << >> THEN << >> ELSE Head(ss) \o Flat(Tail(ss))

\* the positions of P whose decimal string starts with the digits of
\* prefix, in the order of the strings (no position exceeds top)
RECURSIVE WithPrefix(_, _, _)
WithPrefix(prefix, P, top) ==
  IF prefix > top THEN << >>
  ELSE (IF prefix \in P THEN <<prefix>> ELSE << >>)
         \o Flat([d \in 1..10 |-> WithPrefix(prefix * 10 + (d - 1), P, top)])

\* the positions of P in the order of the item documents' ids, which are
\* the positions' decimal strings
SortedPositions(P) ==
  IF P = {} THEN << >>
  ELSE (IF 0 \in P THEN <<0>> ELSE << >>)
         \o Flat([d \in 1..9 |-> WithPrefix(d, P, Max(P))])

(***************************************************************************)
(* Write operations and their effect on the sharded shape                  *)
(***************************************************************************)
\* batch.set(dateDocRef, {date, itemCount, lastUpdated})
DateOp(id, count) == [t |-> "date", id |-> id, n |-> count, r |-> 0]
\* batch.set(itemRef, receipt)
ItemOp(id, position, r) == [t |-> "item", id |-> id, n |-> position, r |-> r]
\* batch.set(metadataRef, {bounties, untaggedBounties, lastUpdated})
MetaOp == [t |-> "meta", id |-> << >>, n |-> 0, r |-> 0]

\* indexes of the operations of ops of kind t on bucket id
OpsOn(ops, t, id) == {k \in 1..Len(ops) : ops[k].t = t /\ ops[k].id = id}

\* the bucket documents after the set operations of ops (the last one wins)
DateDocsAfter(docs, ops) ==
  LET ids == {ops[k].id : k \in {j \in 1..Len(ops) : ops[j].t = "date"}}
  IN  [id \in DOMAIN docs \cup ids |->
         IF id \in ids THEN ops[Max(OpsOn(ops, "date", id))].n ELSE docs[id]]

\* the item documents after the set operations of ops (the last one wins)
ItemsAfter(its, ops) ==
  LET ids == {ops[k].id : k \in {j \in 1..Len(ops) : ops[j].t = "item"}}
  IN  [id \in DOMAIN its \cup ids |->
         LET old == IF id \in DOMAIN its THEN its[id] ELSE << >>
             mine == OpsOn(ops, "item", id)
             ps == {ops[k].n : k \in mine}
         IN  [p \in DOMAIN old \cup ps |->
                IF p \in ps
                THEN ops[Max({k \in mine : ops[k].n = p})].r
                ELSE old[p]]]

\* the receipts of rs that carry a date, in order
DatedOnly(rs) == SelectSeq(rs, LAMBDA r : ~MissingDate(r))

\* normalizeDateToDay(receipt.date)
Day(r) == normalizeDateToDay(Receipt(r).date)

\* the keys of receiptsByDate in insertion order (Object.entries)
DayOrder(rs) ==
  LET days == {Day(rs[j]) : j \in 1..Len(rs)}
      first == [d \in days |-> Min({j \in 1..Len(rs) : Day(rs[j]) = d})]
      rank == [d \in days |-> Cardinality({e \in days : first[e] < first[d]})]
  IN  [n \in 1..Cardinality(days) |-> CHOOSE d \in days : rank[d] = n - 1]

\* receiptsByDate[day]
DayGroup(rs, day) == SelectSeq(rs, LAMBDA r : Day(r) = day)

(***************************************************************************)
(* Sharded Store Adapter: saveToStorage                                    *)
(***************************************************************************)
\* a mutant: the save takes every receipt of the new log as added
AddedReceipts_All(log, newReceipts) == DatedOnly(newReceipts)

\* addedReceipts that pass the date check of the grouping loop
AddedReceipts(log, newReceipts) ==
  DatedOnly(SubSeq(newReceipts, Len(log) + 1, Len(newReceipts)))

\* receipts.filter(r => normalizeDateToDay(r.date) === normalizedDate).length
ExistingForDate(log, day) ==
  Cardinality({k \in 1..Len(log) : Day(log[k]) = day})

\* a mutant: every group is written from position 0
SaveGroupOps_FromZero(log, added, day) ==
  LET group == DayGroup(added, day)
  IN  <<DateOp(dateId(day), Len(group))>>
        \o [idx \in 1..Len(group) |-> ItemOp(dateId(day), idx - 1, group[idx])]

\* the body of Object.entries(receiptsByDate).forEach(...) for one day
SaveGroupOps(log, added, day) ==
  LET group == DayGroup(added, day)
      existingForDate == ExistingForDate(log, day)
  IN  <<DateOp(dateId(day), existingForDate + Len(group))>>
        \o [idx \in 1..Len(group) |->
              ItemOp(dateId(day), existingForDate + (idx - 1), group[idx])]

\* the set operations saveToStorage puts in its batch for the receipts
SaveOps(log, newReceipts) ==
  LET added == AddedReceipts(log, newReceipts)
      days == DayOrder(added)
  IN  Flat([n \in 1..Len(days) |-> SaveGroupOps(log, added, days[n])])

\* r.date.match(...) throws on a receipt of the log whose date is undefined
SaveThrows(log, newReceipts) ==
  /\ AddedReceipts(log, newReceipts) # << >>
  /\ \E k \in 1..Len(log) : ~Receipt(log[k]).hasDate

\* number of operations of the one batch of a save (receipts and metadata)
SaveBatchSize(s) == Len(SaveOps(s.receipts, s.newReceipts)) + 1

\* saveToStorage(newReceipts, newBounties, newUntagged), up to its await
SaveToStorage(newReceipts, newBounties, newUntagged) ==
  IF user
  THEN /\ saves' = IF SaveThrows(receipts, newReceipts) THEN saves
                   ELSE Append(saves, [receipts |-> receipts,
                                       newReceipts |-> newReceipts,
                                       newBounties |-> newBounties,
                                       newUntagged |-> newUntagged])
       /\ UNCHANGED localStorage
  ELSE /\ localStorage' = [has |-> TRUE, receipts |-> newReceipts,
                           bounties |-> newBounties,
                           untaggedBounties |-> newUntagged]
       /\ UNCHANGED saves

\* the clear task as seen after a step of another operation
Disturbed ==
  IF clear.pc = "idle" THEN clear ELSE [clear EXCEPT !.alone = FALSE]

\* await batch.commit() of the oldest pending save succeeds
SaveCommit ==
  /\ saves # << >>
  /\ SaveBatchSize(Head(saves)) <= StoreBatchCeiling
  /\ LET s == Head(saves)
         ops == SaveOps(s.receipts, s.newReceipts)
     IN  /\ receipts_by_date' = DateDocsAfter(receipts_by_date, ops)
         /\ items' = ItemsAfter(items, ops)
         /\ metadata' = [exists |-> TRUE,
                         bounties |-> Merge(metadata.bounties, s.newBounties),
                         untaggedBounties |-> s.newUntagged]
  /\ saves' = Tail(saves)
  /\ isLoading' = FALSE
  /\ clear' = Disturbed
  /\ alert' = "none"
  /\ UNCHANGED <<pd, userOps, user, memVars, progressVars, localStorage, legacyReceipts,
                 userData, load, failures, converted>>

\* a mutant: a failed commit puts the log back to what it was before the paste
SaveFail_Rollback ==
  /\ saves # << >>
  /\ \/ SaveBatchSize(Head(saves)) > StoreBatchCeiling /\ UNCHANGED failures
     \/ /\ SaveBatchSize(Head(saves)) <= StoreBatchCeiling
        /\ failures < MaxFailures
        /\ failures' = failures + 1
  /\ saves' = Tail(saves)
  /\ receipts' = Head(saves).receipts
  /\ isLoading' = FALSE
  /\ clear' = Disturbed
  /\ alert' = "none"
  /\ UNCHANGED <<pd, userOps, user, bounties, untaggedBounties, progressVars,
                 localStorage, storeVars, load, converted>>

\* await batch.commit() of the oldest pending save fails: logged, not rolled back
SaveFail ==
  /\ saves # << >>
  /\ \/ SaveBatchSize(Head(saves)) > StoreBatchCeiling /\ UNCHANGED failures
     \/ /\ SaveBatchSize(Head(saves)) <= StoreBatchCeiling
        /\ failures < MaxFailures
        /\ failures' = failures + 1
  /\ saves' = Tail(saves)
  /\ isLoading' = FALSE
  /\ clear' = Disturbed
  /\ alert' = "none"
  /\ UNCHANGED <<pd, userOps, user, memVars, progressVars, localStorage, storeVars,
                 load, converted>>

(***************************************************************************)
(* handlePaste                                                             *)
(***************************************************************************)
\* receipts a clipboard may hold
PasteIds == {1, 2}

\* what JSON.parse(text) may give: the object shape (receipts, and bounties
\* with short lists of receipts), a bare array, something else, or a throw
PasteInputs ==
  {[shape |-> "object", receipts |-> rs, bounties |-> << >>] :
     rs \in SeqsUpTo(PasteIds, MaxPaste)}
  \cup {[shape |-> "object", receipts |-> rs, bounties |-> <<4>>] :
          rs \in SeqsUpTo(PasteIds, MaxPasteWithBounties)}
  \cup {[shape |-> "array", receipts |-> rs, bounties |-> << >>] :
          rs \in SeqsUpTo(PasteIds, MaxPaste)}
  \cup {[shape |-> sh, receipts |-> << >>, bounties |-> << >>] :
          sh \in {"invalid", "other"}}

\* the buttons are disabled, and the screen replaced, while isLoading
UiEnabled == ~isLoading

\* what the paste adds: receipts, and (object shape only) untagged bounties
PasteAdds(parsed) ==
  [receipts |-> IF parsed.shape \in {"object", "array"}
                THEN Reconcile(receipts, parsed.receipts).toAdd ELSE << >>,
   bounties |-> IF parsed.shape = "object" /\ parsed.bounties # << >>
                THEN Reconcile(untaggedBounties, parsed.bounties).toAdd
                ELSE << >>]

\* the alert of a paste that adds nothing: text that JSON.parse rejects
\* ends in the catch block; parsed data with nothing new is reported as
\* such; parsed data of another shape takes neither branch and shows nothing
PasteAlert(parsed) ==
  IF parsed.shape = "invalid" THEN "pasteFailed"
  ELSE IF parsed.shape \in {"object", "array"} THEN "noNew"
  ELSE "none"

\* handlePaste with the clipboard holding `parsed`.  Nothing new, or text
\* that is not receipt data, changes nothing; else the state is updated,
\* then the save is started and left running in the background.  (The log
\* is kept within `limit` receipts.)
HandlePaste(parsed, limit) ==
  /\ UiEnabled
  /\ LET adds == PasteAdds(parsed)
         newReceipts == receipts \o adds.receipts
         newUntagged == untaggedBounties \o adds.bounties
     IN  IF adds.receipts = << >> /\ adds.bounties = << >>
         THEN /\ alert' = PasteAlert(parsed)
              /\ UNCHANGED <<receipts, untaggedBounties, saves, localStorage,
                             userOps>>
         ELSE /\ Len(newReceipts) <= limit
              /\ alert' = "added"
              /\ userOps < MaxUserOps
              /\ user => Len(saves) < MaxPending
              /\ userOps' = userOps + 1
              /\ receipts' = newReceipts
              /\ untaggedBounties' = newUntagged
              /\ SaveToStorage(newReceipts, bounties, newUntagged)
  /\ isLoading' = FALSE
  /\ clear' = Disturbed
  /\ UNCHANGED <<pd, user, bounties, progressVars, storeVars, load, failures,
                 converted>>

(***************************************************************************)
(* Identity changes and the effect that follows them                       *)
(***************************************************************************)
\* no background task is in flight
Quiet ==
  /\ load.pc \in {"idle", "done", "failed"}
  /\ saves = << >>
  /\ clear.pc \in {"idle", "done", "failed"}
  /\ \A b \in DOMAIN clear.sub : clear.sub[b].pc \in {"wait", "done", "failed"}

\* logIn: the effect on [user] starts loadFromFirestore
Login ==
  /\ ~user
  /\ UiEnabled
  /\ Quiet
  /\ userOps < MaxUserOps
  /\ userOps' = userOps + 1
  /\ user' = TRUE
  /\ isLoading' = TRUE
  /\ load' = [IdleLoad EXCEPT !.pc = "dates"]
  /\ clear' = IdleClear
  /\ alert' = "none"
  /\ UNCHANGED <<pd, memVars, progressVars, localStorage, storeVars, saves,
                 failures, converted>>

\* handleLogout, then the effect on [user] reading the local cache
Logout ==
  /\ user
  /\ UiEnabled
  /\ Quiet
  /\ userOps < MaxUserOps
  /\ userOps' = userOps + 1
  /\ user' = FALSE
  /\ receipts' = IF localStorage.has THEN localStorage.receipts ELSE << >>
  /\ bounties' = IF localStorage.has THEN localStorage.bounties ELSE EmptyObject
  /\ untaggedBounties' =
       IF localStorage.has THEN localStorage.untaggedBounties ELSE << >>
  /\ load' = IdleLoad
  /\ clear' = Disturbed
  /\ alert' = "none"
  /\ UNCHANGED <<pd, isLoading, progressVars, localStorage, storeVars, saves,
                 failures, converted>>

(***************************************************************************)
(* Migration Engine: migrateToSubcollections                               *)
(***************************************************************************)
\* soft cap on the operations of one migration commit
MAX_BATCH_SIZE == 450

\* a mutant: the last receipt of a day is not written
MigrateGroupOps_DropLast(dated, day) ==
  LET group == DayGroup(dated, day)
  IN  <<DateOp(dateId(day), Len(group))>>
        \o [i \in 1..(Len(group) - 1) |-> ItemOp(dateId(day), i - 1, group[i])]

\* a mutant: the items of a day are numbered from 1
MigrateGroupOps_FromOne(dated, day) ==
  LET group == DayGroup(dated, day)
  IN  <<DateOp(dateId(day), Len(group))>>
        \o [i \in 1..Len(group) |-> ItemOp(dateId(day), i, group[i])]

\* the operations written for one day of receiptsByDate
MigrateGroupOps(dated, day) ==
  LET group == DayGroup(dated, day)
  IN  <<DateOp(dateId(day), Len(group))>>
        \o [i \in 1..Len(group) |-> ItemOp(dateId(day), i - 1, group[i])]

\* skippedCount after the grouping loop: one per receipt without a date
RECURSIVE MigrateSkipped(_)
MigrateSkipped(receiptsData) ==
  IF receiptsData = << >> THEN 0
  ELSE (IF MissingDate(Head(receiptsData)) THEN 1 ELSE 0)
         + MigrateSkipped(Tail(receiptsData))

\* every operation of a migration, in the order the code adds them to its
\* batches: per day the bucket document and its items, the metadata last
MigrateOps(receiptsData) ==
  LET dated == DatedOnly(receiptsData)
      days == DayOrder(dated)
  IN  Flat([n \in 1..Len(days) |-> MigrateGroupOps(dated, days[n])]) \o <<MetaOp>>

\* a mutant: the batch is committed once operationCount exceeds the cap
MigrateChunkEnd_Exceeds(total, committed) ==
  IF committed + MAX_BATCH_SIZE + 1 < total
  THEN committed + MAX_BATCH_SIZE + 1 ELSE total

\* index of the last operation of the commit that follows `committed`
\* operations: the batch is committed once operationCount reaches the cap
MigrateChunkEnd(total, committed) ==
  IF committed + MAX_BATCH_SIZE < total THEN committed + MAX_BATCH_SIZE ELSE total

(***************************************************************************)
(* Sync Orchestrator: loadFromFirestore                                    *)
(***************************************************************************)
LoadRunning == load.pc \notin {"idle", "done", "failed"}

\* dateResults.flat(): the items of every listed bucket, in document order
LoadedReceipts(dates) ==
  Flat([n \in 1..Len(dates) |->
          LET its == IF dates[n] \in DOMAIN items THEN items[dates[n]] ELSE << >>
              ps == SortedPositions(DOMAIN its)
          IN  [k \in 1..Len(ps) |-> its[ps[k]]]])

\* the finally block
LoadEnds(pc) ==
  /\ load' = [load EXCEPT !.pc = pc]
  /\ isLoading' = FALSE

\* getDocs(receiptsByDateRef) answers
LoadDates ==
  /\ load.pc = "dates"
  /\ load' = [load EXCEPT !.pc = "items",
                          !.dates = SortedIds(DOMAIN receipts_by_date)]
  /\ clear' = Disturbed
  /\ alert' = "none"
  /\ UNCHANGED <<pd, userOps, user, memVars, isLoading, progressVars, localStorage,
                 storeVars, saves, failures, converted>>

\* Promise.all(datePromises) answers
LoadItems ==
  /\ load.pc = "items"
  /\ load' = [load EXCEPT !.pc = "meta", !.loaded = LoadedReceipts(load.dates)]
  /\ clear' = Disturbed
  /\ alert' = "none"
  /\ UNCHANGED <<pd, userOps, user, memVars, isLoading, progressVars, localStorage,
                 storeVars, saves, failures, converted>>

\* getDoc(metadataRef) answers: the state is set; the local cache is removed
\* when receipts were loaded, else the old flat collection is read
LoadMetadata ==
  /\ load.pc = "meta"
  /\ bounties' = IF metadata.exists THEN metadata.bounties ELSE bounties
  /\ untaggedBounties' =
       IF metadata.exists THEN metadata.untaggedBounties ELSE untaggedBounties
  /\ receipts' = load.loaded
  /\ IF load.loaded # << >>
     THEN /\ localStorage' = NoLocal
          /\ LoadEnds("done")
     ELSE /\ load' = [load EXCEPT !.pc = "flat"]
          /\ UNCHANGED <<localStorage, isLoading>>
  /\ clear' = Disturbed
  /\ alert' = "none"
  /\ UNCHANGED <<pd, userOps, user, progressVars, storeVars, saves, failures, converted>>

\* a mutant: the old flat collection is not looked at, the blob document is
\* tried first
LoadFlat_BlobFirst ==
  /\ load.pc = "flat"
  /\ load' = [load EXCEPT !.pc = "blob"]
  /\ clear' = Disturbed
  /\ alert' = "none"
  /\ UNCHANGED <<pd, userOps, user, memVars, isLoading, progressVars, localStorage,
                 storeVars, saves, failures, converted>>

\* getDocs(oldReceiptsRef) answers
LoadFlat ==
  /\ load.pc = "flat"
  /\ load' = IF legacyReceipts # << >>
             THEN [load EXCEPT !.pc = "flatMeta", !.src = "flat",
                               !.data = legacyReceipts]
             ELSE [load EXCEPT !.pc = "blob"]
  /\ clear' = Disturbed
  /\ alert' = "none"
  /\ UNCHANGED <<pd, userOps, user, memVars, isLoading, progressVars, localStorage,
                 storeVars, saves, failures, converted>>

\* getDoc(metadataRef) answers on the flat path; migrateToSubcollections
\* builds its first batch
LoadFlatMetadata ==
  /\ load.pc = "flatMeta"
  /\ load' = [load EXCEPT !.pc = "migrate",
                          !.dataBounties = metadata.bounties,
                          !.dataUntagged = metadata.untaggedBounties,
                          !.committed = 0]
  /\ clear' = Disturbed
  /\ alert' = "none"
  /\ UNCHANGED <<pd, userOps, user, memVars, isLoading, progressVars, localStorage,
                 storeVars, saves, failures, converted>>

\* getDoc(oldDocRef) answers: the blob is migrated if it exists, else the
\* local cache if it holds anything, else the load is complete
LoadBlob ==
  /\ load.pc = "blob"
  /\ IF userData.exists
     THEN /\ load' = [load EXCEPT !.pc = "migrate", !.src = "blob",
                                  !.data = userData.receipts,
                                  !.dataBounties = userData.bounties,
                                  !.dataUntagged = userData.untaggedBounties,
                                  !.committed = 0]
          /\ UNCHANGED isLoading
     ELSE IF localStorage.has
     THEN /\ load' = [load EXCEPT !.pc = "migrate", !.src = "local",
                                  !.data = localStorage.receipts,
                                  !.dataBounties = localStorage.bounties,
                                  !.dataUntagged = localStorage.untaggedBounties,
                                  !.committed = 0]
          /\ UNCHANGED isLoading
     ELSE LoadEnds("done")
  /\ clear' = Disturbed
  /\ alert' = "none"
  /\ UNCHANGED <<pd, userOps, user, memVars, progressVars, localStorage, storeVars,
                 saves, failures, converted>>

\* one batch.commit() of migrateToSubcollections succeeds; after the last
\* one the caller goes on: it issues the deletion of the flat collection or
\* of the blob, or (local cache) sets the state and removes the cache
MigrateCommit ==
  /\ load.pc = "migrate"
  /\ LET ops == MigrateOps(load.data)
         hi == MigrateChunkEnd(Len(ops), load.committed)
         chunk == SubSeq(ops, load.committed + 1, hi)
         last == hi = Len(ops)
     IN  /\ hi - load.committed <= StoreBatchCeiling
         /\ receipts_by_date' = DateDocsAfter(receipts_by_date, chunk)
         /\ items' = ItemsAfter(items, chunk)
         /\ metadata' = IF last
                        THEN [exists |-> TRUE, bounties |-> load.dataBounties,
                              untaggedBounties |-> load.dataUntagged]
                        ELSE metadata
         /\ converted' = IF last /\ load.src \in {"flat", "blob"}
                         THEN converted \cup {load.src} ELSE converted
         /\ IF ~last
            THEN /\ load' = [load EXCEPT !.committed = hi]
                 /\ UNCHANGED <<memVars, localStorage, isLoading>>
            ELSE IF load.src = "flat"
            THEN /\ load' = [load EXCEPT !.committed = hi, !.pc = "flatDelete"]
                 /\ UNCHANGED <<memVars, localStorage, isLoading>>
            ELSE IF load.src = "blob"
            THEN /\ load' = [load EXCEPT !.committed = hi, !.pc = "blobDelete"]
                 /\ UNCHANGED <<memVars, localStorage, isLoading>>
            ELSE /\ receipts' = load.data
                 /\ bounties' = load.dataBounties
                 /\ untaggedBounties' = load.dataUntagged
                 /\ localStorage' = NoLocal
                 /\ load' = [load EXCEPT !.committed = hi, !.pc = "done"]
                 /\ isLoading' = FALSE
  /\ clear' = Disturbed
  /\ alert' = "none"
  /\ UNCHANGED <<pd, userOps, user, progressVars, legacyReceipts, userData, saves,
                 failures>>

\* the batch deleting every document of the old flat collection commits
LoadFlatDelete ==
  /\ load.pc = "flatDelete"
  /\ Len(load.data) <= StoreBatchCeiling
  /\ legacyReceipts' = << >>
  /\ receipts' = load.data
  /\ bounties' = load.dataBounties
  /\ untaggedBounties' = load.dataUntagged
  /\ LoadEnds("done")
  /\ clear' = Disturbed
  /\ alert' = "none"
  /\ UNCHANGED <<pd, userOps, user, progressVars, localStorage, receipts_by_date, items,
                 metadata, userData, saves, failures, converted>>

\* deleteDoc(oldDocRef) succeeds
LoadBlobDelete ==
  /\ load.pc = "blobDelete"
  /\ userData' = NoUserData
  /\ LoadEnds("done")
  /\ clear' = Disturbed
  /\ alert' = "none"
  /\ UNCHANGED <<pd, userOps, user, memVars, progressVars, localStorage, receipts_by_date,
                 items, metadata, legacyReceipts, saves, failures, converted>>

\* the commit at hand exceeds the store's ceiling and can only be refused
LoadCommitRefused ==
  \/ load.pc = "flatDelete" /\ Len(load.data) > StoreBatchCeiling
  \/ /\ load.pc = "migrate"
     /\ MigrateChunkEnd(Len(MigrateOps(load.data)), load.committed)
          - load.committed > StoreBatchCeiling

\* the remote call the load awaits fails: caught, logged, finally
LoadFail ==
  /\ LoadRunning
  /\ \/ LoadCommitRefused /\ UNCHANGED failures
     \/ /\ ~LoadCommitRefused
        /\ failures < MaxFailures
        /\ failures' = failures + 1
  /\ LoadEnds("failed")
  /\ clear' = Disturbed
  /\ alert' = "none"
  /\ UNCHANGED <<pd, userOps, user, memVars, progressVars, localStorage, storeVars,
                 saves, converted>>

(***************************************************************************)
(* Bulk delete: handleClear                                                *)
(***************************************************************************)
\* buckets whose deletion is started together
PARALLEL_CHUNK_SIZE == 10
\* item deletions after which a bucket's batch is committed
DELETE_BATCH_OPS == 499

\* the task of one bucket inside Promise.all
SubTask(pc) == [pc |-> pc, snap |-> << >>, done |-> 0]

\* dateChunks[c] as the set of the bucket ids it holds (c counts from 0)
ChunkIds(docs, c) ==
  {docs[i] : i \in {j \in 1..Len(docs) :
                      /\ j > c * PARALLEL_CHUNK_SIZE
                      /\ j <= (c + 1) * PARALLEL_CHUNK_SIZE}}

\* a mutant: the loop over the chunks ends after the first one
ChunkCount_One(docs) == 1

\* number of chunks of the snapshot
ChunkCount(docs) == (Len(docs) + PARALLEL_CHUNK_SIZE - 1) \div PARALLEL_CHUNK_SIZE

\* a mutant: every bucket of the snapshot is started at once
StartChunk_All(sub, docs, c) ==
  [b \in DOMAIN sub |-> IF sub[b].pc = "wait" THEN SubTask("items") ELSE sub[b]]

\* the sub-tasks once chunk c is started
StartChunk(sub, docs, c) ==
  [b \in DOMAIN sub |-> IF b \in ChunkIds(docs, c) THEN SubTask("items") ELSE sub[b]]

ClearRunning == clear.pc \in {"dates", "chunk", "meta"}

\* a sub-task of a clear is still awaiting the store
SubRunning(b) == clear.sub[b].pc \in {"items", "deleting"}

\* the item documents after deleting positions ps of bucket b
ItemsWithout(its, b, ps) ==
  IF b \notin DOMAIN its THEN its
  ELSE LET rest == DOMAIN its[b] \ ps
       IN  IF rest = {}
           THEN [id \in DOMAIN its \ {b} |-> its[id]]
           ELSE [id \in DOMAIN its |->
                   IF id = b THEN [p \in rest |-> its[b][p]] ELSE its[id]]

\* the bucket documents after deleting bucket b
DocsWithout(docs, b) == [id \in DOMAIN docs \ {b} |-> docs[id]]

\* handleClear, confirmed: the state and the local cache are emptied at
\* once, the deletion task is started when signed in.  A new task is not
\* started while sub-tasks of a failed one are still running.
HandleClear ==
  /\ UiEnabled
  /\ ~ClearRunning
  /\ \A b \in DOMAIN clear.sub : ~SubRunning(b)
  /\ userOps < MaxUserOps
  /\ userOps' = userOps + 1
  /\ receipts' = << >>
  /\ bounties' = EmptyObject
  /\ untaggedBounties' = << >>
  /\ localStorage' = NoLocal
  /\ IF user
     THEN /\ isLoading' = TRUE
          /\ clear' = [IdleClear EXCEPT !.pc = "dates", !.alone = (saves = << >>),
                                         !.orphans = clear.orphans]
     ELSE UNCHANGED <<isLoading, clear>>
  /\ alert' = "none"
  /\ UNCHANGED <<pd, user, progressVars, storeVars, load, saves, failures,
                 converted>>

\* the tasks of the delete that failed which still await the store, in the
\* order of its listing: nothing stops them when Promise.all rejects
LeftRunning ==
  LET task(i) == [b |-> clear.docs[i], pc |-> clear.sub[clear.docs[i]].pc,
                  snap |-> clear.sub[clear.docs[i]].snap,
                  done |-> clear.sub[clear.docs[i]].done]
  IN  SelectSeq([i \in 1..Len(clear.docs) |-> task(i)],
                LAMBDA t : t.pc \in {"items", "deleting"})

\* handleClear, confirmed while tasks of a delete that failed are still
\* running (the failure has released the loading flag): a new deletion task
\* is started next to them
HandleClearOver ==
  /\ UiEnabled
  /\ ~ClearRunning
  /\ \E b \in DOMAIN clear.sub : SubRunning(b)
  /\ user
  /\ userOps < MaxUserOps
  /\ userOps' = userOps + 1
  /\ receipts' = << >>
  /\ bounties' = EmptyObject
  /\ untaggedBounties' = << >>
  /\ localStorage' = NoLocal
  /\ isLoading' = TRUE
  /\ clear' = [IdleClear EXCEPT !.pc = "dates", !.alone = (saves = << >>),
                                !.orphans = clear.orphans \o LeftRunning]
  /\ alert' = "none"
  /\ UNCHANGED <<pd, user, progressVars, storeVars, load, saves, failures,
                 converted>>

\* after the loop over the chunks: the timer is cleared and the metadata
\* batch is issued
ClearLoopDone(total) ==
  /\ poll' = [poll EXCEPT !.current = FALSE]
  /\ deleteProgress' = [current |-> total, total |-> total]

\* getDocs(receiptsByDateRef) answers: the progress is set up and the first
\* chunk is started
ClearDates ==
  /\ clear.pc = "dates"
  /\ LET docs == SortedIds(DOMAIN receipts_by_date)
         total == Len(docs)
         sub == [b \in DOMAIN receipts_by_date |-> SubTask("wait")]
     IN  /\ deleteProgressRef' = [current |-> 0, total |-> total]
         /\ IF total = 0
            THEN /\ ClearLoopDone(0)
                 /\ clear' = [clear EXCEPT !.pc = "meta", !.docs = docs,
                                           !.sub = sub]
            ELSE /\ deleteProgress' = [current |-> 0, total |-> total]
                 /\ poll' = [poll EXCEPT !.current = TRUE]
                 /\ clear' = [clear EXCEPT !.pc = "chunk", !.docs = docs,
                                           !.chunk = 0,
                                           !.sub = StartChunk(sub, docs, 0)]
  /\ alert' = "none"
  /\ UNCHANGED <<pd, userOps, user, memVars, isLoading, localStorage, storeVars, load,
                 saves, failures, converted>>

\* getDocs(itemsRef) of bucket b answers: the first batch is filled
ClearItems(b) ==
  /\ b \in DOMAIN clear.sub
  /\ clear.sub[b].pc = "items"
  /\ clear' = [clear EXCEPT !.sub[b] =
                 [pc |-> "deleting",
                  snap |-> IF b \in DOMAIN items
                           THEN SortedPositions(DOMAIN items[b]) ELSE << >>,
                  done |-> 0]]
  /\ alert' = "none"
  /\ UNCHANGED <<pd, userOps, user, memVars, isLoading, progressVars, localStorage,
                 storeVars, load, saves, failures, converted>>

\* deleteProgressRef.current.current++
Incremented(ref) == [ref EXCEPT !.current = @ + 1]

\* a batch.commit() of bucket b succeeds: a full batch of item deletions,
\* or the last batch, which also deletes the bucket document; after the
\* last bucket of a chunk the next chunk, or the metadata reset, is started
ClearCommit(b) ==
  /\ b \in DOMAIN clear.sub
  /\ clear.sub[b].pc = "deleting"
  /\ LET t == clear.sub[b]
         full == Len(t.snap) - t.done >= DELETE_BATCH_OPS
         hi == IF full THEN t.done + DELETE_BATCH_OPS ELSE Len(t.snap)
         ps == {t.snap[k] : k \in (t.done + 1)..hi}
         sub == [clear.sub EXCEPT ![b] =
                   [t EXCEPT !.done = hi,
                             !.pc = IF full THEN "deleting" ELSE "done"]]
         chunkDone == \A c \in ChunkIds(clear.docs, clear.chunk) : sub[c].pc = "done"
         total == Len(clear.docs)
     IN  /\ items' = ItemsWithout(items, b, ps)
         /\ receipts_by_date' =
              IF full THEN receipts_by_date ELSE DocsWithout(receipts_by_date, b)
         /\ deleteProgressRef' =
              IF full THEN deleteProgressRef
              ELSE Incremented(deleteProgressRef)
         /\ IF clear.pc = "chunk" /\ chunkDone
            THEN IF clear.chunk + 1 < ChunkCount(clear.docs)
                 THEN /\ clear' = [clear EXCEPT
                                     !.chunk = @ + 1,
                                     !.sub = StartChunk(sub, clear.docs,
                                                        clear.chunk + 1)]
                      /\ UNCHANGED <<poll, deleteProgress>>
                 ELSE /\ clear' = [clear EXCEPT !.pc = "meta", !.sub = sub]
                      /\ ClearLoopDone(total)
            ELSE /\ clear' = [clear EXCEPT !.sub = sub]
                 /\ UNCHANGED <<poll, deleteProgress>>
  /\ alert' = "none"
  /\ UNCHANGED <<pd, userOps, user, memVars, isLoading, localStorage, metadata,
                 legacyReceipts, userData, load, saves, failures, converted>>

\* metaBatch.commit() succeeds
ClearMetadata ==
  /\ clear.pc = "meta"
  /\ metadata' = [exists |-> TRUE, bounties |-> EmptyObject,
                  untaggedBounties |-> << >>]
  /\ deleteProgress' = NoProgress
  /\ isLoading' = FALSE
  /\ clear' = [clear EXCEPT !.pc = "done"]
  /\ alert' = "none"
  /\ UNCHANGED <<pd, userOps, user, memVars, deleteProgressRef, poll, localStorage,
                 receipts_by_date, items, legacyReceipts, userData, load,
                 saves, failures, converted>>

\* a mutant: the catch block without the finally block
ClearCaught_NoFinally ==
  /\ alert' = "clearFailed"
  /\ deleteProgress' = NoProgress
  /\ UNCHANGED isLoading

\* the catch and finally blocks of the deletion task
ClearCaught ==
  /\ alert' = "clearFailed"
  /\ deleteProgress' = NoProgress
  /\ isLoading' = FALSE

\* the listing of the buckets, or the metadata commit, fails
ClearFail ==
  /\ clear.pc \in {"dates", "meta"}
  /\ failures < MaxFailures
  /\ failures' = failures + 1
  /\ ClearCaught
  /\ clear' = [clear EXCEPT !.pc = "failed"]
  /\ UNCHANGED <<pd, userOps, user, memVars, deleteProgressRef, poll, localStorage,
                 storeVars, load, saves, converted>>

\* a call of bucket b's sub-task fails: Promise.all rejects at once, the
\* timer is left running, the other sub-tasks of the chunk go on
ClearSubFail(b) ==
  /\ b \in DOMAIN clear.sub
  /\ SubRunning(b)
  /\ failures < MaxFailures
  /\ failures' = failures + 1
  /\ IF clear.pc = "chunk"
     THEN /\ ClearCaught
          /\ poll' = [current |-> FALSE, leaked |-> TRUE]
          /\ clear' = [clear EXCEPT !.pc = "failed", !.sub[b].pc = "failed"]
     ELSE /\ clear' = [clear EXCEPT !.sub[b].pc = "failed"]
          /\ alert' = "none"
          /\ UNCHANGED <<deleteProgress, isLoading, poll>>
  /\ UNCHANGED <<pd, userOps, user, memVars, deleteProgressRef, localStorage, storeVars,
                 load, saves, converted>>

\* the sequence without its k-th element
Without(seq, k) == SubSeq(seq, 1, k - 1) \o SubSeq(seq, k + 1, Len(seq))

\* getDocs(itemsRef) of a task left running answers
OrphanItems(k) ==
  /\ k \in 1..Len(clear.orphans)
  /\ clear.orphans[k].pc = "items"
  /\ clear' = [clear EXCEPT !.orphans[k] =
                 [b |-> @.b, pc |-> "deleting",
                  snap |-> IF @.b \in DOMAIN items
                           THEN SortedPositions(DOMAIN items[@.b]) ELSE << >>,
                  done |-> 0]]
  /\ alert' = "none"
  /\ UNCHANGED <<pd, userOps, user, memVars, isLoading, progressVars, localStorage,
                 storeVars, load, saves, failures, converted>>

\* a batch.commit() of a task left running succeeds; after its last one the
\* task advances the counter the ref holds by then
OrphanCommit(k) ==
  /\ k \in 1..Len(clear.orphans)
  /\ clear.orphans[k].pc = "deleting"
  /\ LET t == clear.orphans[k]
         full == Len(t.snap) - t.done >= DELETE_BATCH_OPS
         hi == IF full THEN t.done + DELETE_BATCH_OPS ELSE Len(t.snap)
         ps == {t.snap[n] : n \in (t.done + 1)..hi}
     IN  /\ items' = ItemsWithout(items, t.b, ps)
         /\ receipts_by_date' =
              IF full THEN receipts_by_date ELSE DocsWithout(receipts_by_date, t.b)
         /\ deleteProgressRef' =
              IF full THEN deleteProgressRef ELSE Incremented(deleteProgressRef)
         /\ clear' = IF full THEN [clear EXCEPT !.orphans[k].done = hi]
                     ELSE [clear EXCEPT !.orphans = Without(@, k)]
  /\ alert' = "none"
  /\ UNCHANGED <<pd, userOps, user, memVars, isLoading, deleteProgress, poll,
                 localStorage, metadata, legacyReceipts, userData, load, saves,
                 failures, converted>>

\* a call of a task left running fails: its rejection reaches nobody
OrphanFail(k) ==
  /\ k \in 1..Len(clear.orphans)
  /\ failures < MaxFailures
  /\ failures' = failures + 1
  /\ clear' = [clear EXCEPT !.orphans = Without(@, k)]
  /\ alert' = "none"
  /\ UNCHANGED <<pd, userOps, user, memVars, isLoading, progressVars, localStorage,
                 storeVars, load, saves, converted>>

\* the steps of the tasks left running by a delete that failed
OrphanStep ==
  \/ \E k \in 1..Len(clear.orphans) : OrphanItems(k)
  \/ \E k \in 1..Len(clear.orphans) : OrphanCommit(k)
  \/ \E k \in 1..Len(clear.orphans) : OrphanFail(k)

\* a progress timer fires and copies the ref into the state
ProgressTick ==
  /\ poll.current \/ poll.leaked
  /\ deleteProgress # deleteProgressRef
  /\ deleteProgress' = deleteProgressRef
  /\ alert' = "none"
  /\ UNCHANGED <<pd, userOps, user, memVars, isLoading, deleteProgressRef, poll,
                 localStorage, storeVars, load, saves, clear, failures,
                 converted>>

(***************************************************************************)
(* The system: sessions, pastes, saves, loads, migrations and clears       *)
(***************************************************************************)
\* the reconciliation run is not part of the system behaviours
NoRun ==
  [stage |-> "start", existing |-> << >>, incoming |-> << >>, log |-> << >>,
   toAdd |-> << >>, skipped |-> 0, again |-> << >>]

\* old flat collections the user may own
LegacyFlats == {<< >>, <<1, 6>>}

\* old blob documents the user may own
LegacyBlobs ==
  {NoUserData,
   [exists |-> TRUE, receipts |-> <<3>>, bounties |-> EmptyObject,
    untaggedBounties |-> <<4>>]}

\* the component is mounted and nobody is signed in; the sharded shape is
\* empty, the user may own data in the legacy shapes and in the local cache
InitWith(flats, blobs, locals) ==
  /\ user = FALSE
  /\ isLoading = FALSE
  /\ deleteProgress = NoProgress
  /\ deleteProgressRef = NoProgress
  /\ poll = [current |-> FALSE, leaked |-> FALSE]
  /\ localStorage \in locals
  /\ receipts = localStorage.receipts
  /\ bounties = localStorage.bounties
  /\ untaggedBounties = localStorage.untaggedBounties
  /\ receipts_by_date = << >>
  /\ items = << >>
  /\ metadata = NoMetadata
  /\ legacyReceipts \in flats
  /\ userData \in blobs
  /\ load = IdleLoad
  /\ saves = << >>
  /\ clear = IdleClear
  /\ failures = 0
  /\ converted = {}
  /\ userOps = 0
  /\ alert = "none"

\* the steps of the background deletion and of its progress timer
ClearStep ==
  \/ ClearDates
  \/ \E b \in DOMAIN clear.sub : ClearItems(b)
  \/ \E b \in DOMAIN clear.sub : ClearCommit(b)
  \/ ClearMetadata
  \/ ClearFail
  \/ \E b \in DOMAIN clear.sub : ClearSubFail(b)
  \/ ProgressTick

\* the steps of loadFromFirestore
LoadStep ==
  \/ LoadDates
  \/ LoadItems
  \/ LoadMetadata
  \/ LoadFlat
  \/ LoadFlatMetadata
  \/ LoadBlob
  \/ MigrateCommit
  \/ LoadFlatDelete
  \/ LoadBlobDelete
  \/ LoadFail

Init == pd = NoRun /\ InitWith(LegacyFlats, LegacyBlobs, {NoLocal})

\* a paste of a clipboard that holds something new (a paste that adds
\* nothing changes nothing but the alert: SpecSessions has those)
AddingPaste ==
  \E parsed \in PasteInputs : HandlePaste(parsed, MaxLog) /\ alert' = "added"

Next ==
  \/ AddingPaste
  \/ Login
  \/ Logout
  \/ HandleClear
  \/ SaveCommit
  \/ SaveFail
  \/ LoadStep
  \/ ClearStep

Spec == Init /\ [][Next]_vars

(***************************************************************************)
(* The reconciliation alone, on every small log and every small batch      *)
(***************************************************************************)
\* receipts the existing log is drawn from
ExistingIds == {1, 3, 4, 6}
\* receipts the pasted batch is drawn from
IncomingIds == {1, 3, 4, 5, 6, 7}

InitDedup ==
  /\ pd \in {[stage |-> "start", existing |-> e, incoming |-> i, log |-> e,
              toAdd |-> << >>, skipped |-> 0, again |-> << >>] :
               e \in SeqsUpTo(ExistingIds, MaxExisting),
               i \in SeqsUpTo(IncomingIds, MaxIncoming)}
  /\ InitWith({<< >>}, {NoUserData}, {NoLocal})

\* the first paste: reconcile, then append toAdd to the log
DedupPaste ==
  /\ pd.stage = "start"
  /\ LET res == Reconcile(pd.existing, pd.incoming)
     IN  pd' = [pd EXCEPT !.stage = "pasted",
                          !.toAdd = res.toAdd,
                          !.skipped = res.skippedCount,
                          !.log = pd.existing \o res.toAdd]
  /\ UNCHANGED sysVars

\* the same batch pasted again, against the updated log
DedupRepaste ==
  /\ pd.stage = "pasted"
  /\ pd' = [pd EXCEPT !.stage = "repasted",
                      !.again = Reconcile(pd.log, pd.incoming).toAdd]
  /\ UNCHANGED sysVars

NextDedup == DedupPaste \/ DedupRepaste

SpecDedup == InitDedup /\ [][NextDedup]_vars

(***************************************************************************)
(* Session starts alone: loads and migrations of every legacy shape,       *)
(* with storage failures                                                   *)
(***************************************************************************)
\* receipts of the long flat collection: with its bucket document and the
\* metadata, more operations than one migration commit takes
BulkLegacy == 450

\* a flat collection of BulkLegacy receipts of one day
BulkFlat == [n \in 1..BulkLegacy |-> NSmall + n]

\* a local cache left by anonymous pastes
LocalCaches ==
  {NoLocal,
   [has |-> TRUE, receipts |-> <<1, 2>>, bounties |-> EmptyObject,
    untaggedBounties |-> <<4>>]}

InitMigrate ==
  /\ pd = NoRun
  /\ InitWith(LegacyFlats \cup {BulkFlat}, LegacyBlobs, LocalCaches)

NextMigrate == Login \/ Logout \/ LoadStep

SpecMigrate == InitMigrate /\ [][NextMigrate]_vars

(***************************************************************************)
(* Pastes and their saves alone, in a session whose log is stored          *)
(***************************************************************************)
\* longest stored log the session starts with
MaxStoredLog == 1
\* longest log the pastes of the session may produce
MaxSaveLog == 3
\* receipts of the long pasted batch: with the bucket document and the
\* metadata, more operations than the store takes in one commit
BulkPasteLen == 499

\* receipts the stored logs and the clipboards are drawn from
SaveIds == {1, 2, 3}

\* a clipboard holding BulkPasteLen receipts of one day
BulkPaste ==
  [shape |-> "array", receipts |-> [n \in 1..BulkPasteLen |-> NSmall + n],
   bounties |-> << >>]

SaveInputs ==
  {[shape |-> "array", receipts |-> rs, bounties |-> << >>] :
     rs \in SeqsUpTo(SaveIds, MaxPaste)}

\* signed in, the load complete: the log in memory is what the store holds
InitSave ==
  /\ pd = NoRun
  /\ user = TRUE
  /\ receipts \in {log \in SeqsUpTo(SaveIds, MaxStoredLog) :
                     Reconcile(<< >>, log).toAdd = log}
  /\ bounties = EmptyObject
  /\ untaggedBounties = << >>
  /\ isLoading = FALSE
  /\ deleteProgress = NoProgress
  /\ deleteProgressRef = NoProgress
  /\ poll = [current |-> FALSE, leaked |-> FALSE]
  /\ localStorage = NoLocal
  /\ receipts_by_date = DateDocsAfter(<< >>, MigrateOps(receipts))
  /\ items = ItemsAfter(<< >>, MigrateOps(receipts))
  /\ metadata = [NoMetadata EXCEPT !.exists = TRUE]
  /\ legacyReceipts = << >>
  /\ userData = NoUserData
  /\ load = [IdleLoad EXCEPT !.pc = "done"]
  /\ saves = << >>
  /\ clear = IdleClear
  /\ failures = 0
  /\ converted = {}
  /\ userOps = 0
  /\ alert = "none"

\* the long batch is pasted into an empty log
BulkPasteStep == receipts = << >> /\ HandlePaste(BulkPaste, BulkPasteLen)

\* a paste of a short clipboard that holds something new
SavePaste ==
  \E parsed \in SaveInputs : HandlePaste(parsed, MaxSaveLog) /\ alert' = "added"

NextSave ==
  \/ SavePaste
  \/ BulkPasteStep
  \/ SaveCommit
  \/ SaveFail

SpecSave == InitSave /\ [][NextSave]_vars

(***************************************************************************)
(* Sessions, pastes and saves, with storage failures: the system without   *)
(* the bulk delete                                                         *)
(***************************************************************************)
NextSessions ==
  \/ \E parsed \in PasteInputs : HandlePaste(parsed, MaxLog)
  \/ Login
  \/ Logout
  \/ SaveCommit
  \/ SaveFail
  \/ LoadStep

SpecSessions == Init /\ [][NextSessions]_vars

(***************************************************************************)
(* Bulk deletes alone, in a session whose log is stored, with storage      *)
(* failures                                                                *)
(***************************************************************************)
\* longest short log the session starts with
MaxClearLog == 2
\* items of the long bucket: more than one deletion batch takes
BulkBucketLen == 500

\* a stored log of BulkBucketLen receipts of one day
BulkLog == [n \in 1..BulkBucketLen |-> NSmall + n]

\* the logs the session may have stored
ClearLogs ==
  {log \in SeqsUpTo(SaveIds, MaxClearLog) : Reconcile(<< >>, log).toAdd = log}
    \cup {BulkLog, <<3>> \o BulkLog}

\* signed in, the load complete: the log in memory is what the store holds
InitClear ==
  /\ pd = NoRun
  /\ user = TRUE
  /\ \E log \in ClearLogs :
       /\ receipts = log
       /\ receipts_by_date = DateDocsAfter(<< >>, MigrateOps(log))
       /\ items = ItemsAfter(<< >>, MigrateOps(log))
  /\ bounties = EmptyObject
  /\ untaggedBounties = << >>
  /\ isLoading = FALSE
  /\ deleteProgress = NoProgress
  /\ deleteProgressRef = NoProgress
  /\ poll = [current |-> FALSE, leaked |-> FALSE]
  /\ localStorage = NoLocal
  /\ metadata = [NoMetadata EXCEPT !.exists = TRUE]
  /\ legacyReceipts = << >>
  /\ userData = NoUserData
  /\ load = [IdleLoad EXCEPT !.pc = "done"]
  /\ saves = << >>
  /\ clear = IdleClear
  /\ failures = 0
  /\ converted = {}
  /\ userOps = 0
  /\ alert = "none"

NextClear == HandleClear \/ ClearStep

SpecClear == InitClear /\ [][NextClear]_vars

(***************************************************************************)
(* Sessions and bulk deletes, started in a session whose store holds one   *)
(* long bucket next to legacy sources an earlier load failed to delete     *)
(***************************************************************************)
\* a stored log of one day whose items fill exactly one deletion batch
FullBatchLog == [n \in 1..DELETE_BATCH_OPS |-> NSmall + n]

InitRestart ==
  /\ pd = NoRun
  /\ user = TRUE
  /\ \E log \in {FullBatchLog} :
       /\ receipts = log
       /\ receipts_by_date = DateDocsAfter(<< >>, MigrateOps(log))
       /\ items = ItemsAfter(<< >>, MigrateOps(log))
  /\ bounties = EmptyObject
  /\ untaggedBounties = << >>
  /\ isLoading = FALSE
  /\ deleteProgress = NoProgress
  /\ deleteProgressRef = NoProgress
  /\ poll = [current |-> FALSE, leaked |-> FALSE]
  /\ localStorage = NoLocal
  /\ metadata = [NoMetadata EXCEPT !.exists = TRUE]
  /\ legacyReceipts \in LegacyFlats
  /\ userData \in LegacyBlobs
  /\ load = [IdleLoad EXCEPT !.pc = "done"]
  /\ saves = << >>
  /\ clear = IdleClear
  /\ failures = 0
  /\ converted = {}
  /\ userOps = 0
  /\ alert = "none"

\* sessions and bulk deletes, no paste
NextRestart == Login \/ Logout \/ HandleClear \/ LoadStep \/ ClearStep

SpecRestart == InitRestart /\ [][NextRestart]_vars

(***************************************************************************)
(* normalizeDateToDay alone, on pairs of short timestamps                  *)
(***************************************************************************)
\* longest generated timestamp
MaxTsLen == 4

\* characters of the generated timestamps: a letter, white space, digits
TsAlphabet == {"O", " ", "1", "2"}

\* the timestamps: every short string, and the catalogued ones
TsStrings ==
  SeqsUpTo(TsAlphabet, MaxTsLen)
    \cup {TS_Oct18_0115PM, TS_Oct18_1159PM, TS_Oct19_0115PM, TS_Blank}

\* what may follow a prefix of a timestamp in the second timestamp
TsTails ==
  {<< >>, <<" ">>, <<"1">>, <<"2">>, <<"O">>, <<" ", "1">>, <<" ", "2">>,
   <<"1", " ">>, <<" ", "2", " ", "O">>}

\* "Oct 18 1:15 PM" with a tab after the month, and the day written "Oct-18"
TS_Oct18_Tab  == <<"O","c","t","\t","1","8"," ","1",":","1","5"," ","P","M">>
TS_Oct18_Dash == <<"O","c","t","-","1","8">>

\* timestamps that share a prefix with ts, and the catalogued ones
TsVariants(ts) ==
  {SubSeq(ts, 1, k) \o t : k \in 0..Len(ts), t \in TsTails}
    \cup {TS_Oct18_0115PM, TS_Oct18_1159PM, TS_Oct19_0115PM, TS_Oct18_Tab,
          TS_Oct18_Dash}

InitNormalize ==
  /\ pd \in {[stage |-> "start", a |-> a, b |-> << >>, keyA |-> << >>,
              keyB |-> << >>] : a \in TsStrings}
  /\ InitWith({<< >>}, {NoUserData}, {NoLocal})

\* both timestamps are normalized, as when grouping receipts by day
NormalizePair ==
  /\ pd.stage = "start"
  /\ \E b \in TsVariants(pd.a) :
       pd' = [pd EXCEPT !.stage = "done", !.b = b,
                        !.keyA = normalizeDateToDay(pd.a),
                        !.keyB = normalizeDateToDay(b)]
  /\ UNCHANGED sysVars

NextNormalize == NormalizePair

SpecNormalize == InitNormalize /\ [][NextNormalize]_vars
(***************************************************************************)
(* Statistics Engine: the values derived from the log at every render      *)
(*                                                                         *)
(* A Date is the number of seconds since the start of the current year     *)
(* (negative in earlier years), in a calendar of 365-day years.  An event  *)
(* of the statistics is the record of the fields the derived values read.  *)
(***************************************************************************)
\* longest log drawn for the time filter, the bounty windows, the flow
MaxFilterLog == 2
MaxRoiLog == 2
MaxFlowLog == 3

TS_Dec31_1150PM == <<"D","e","c"," ","3","1"," ","1","1",":","5","0"," ","P","M">>
TS_oct18_lower  == <<"o","c","t"," ","1","8"," ","1",":","1","5"," ","p","m">>
TS_Yesterday    == <<"y","e","s","t","e","r","d","a","y">>

YearSeconds == 365 * 24 * 60 * 60

\* new Date(year, month, day, hour, minute) of the current year (the
\* components overflow into the next unit as MakeDay / MakeTime do)
MakeDate(month, day, hour, minute) ==
  LET daysBefore == <<0, 31, 59, 90, 120, 151, 181, 212, 243, 273, 304, 334>>
  IN  ((daysBefore[month + 1] + day - 1) * 24 + hour) * 3600 + minute * 60

\* the one element of a one-element set; The({F(x) : x \in {e}}) is F(e)
\* with e evaluated once
The(S) == CHOOSE x \in S : TRUE

\* parseInt of a string of digits
RECURSIVE parseInt(_)
parseInt(digits) ==
  LET digitChars == <<"0","1","2","3","4","5","6","7","8","9">>
  IN  IF digits = << >> THEN 0
      ELSE parseInt(SubSeq(digits, 1, Len(digits) - 1)) * 10
             + (CHOOSE k \in 1..10 : digitChars[k] = digits[Len(digits)]) - 1

MonthNames ==
  <<<<"J","a","n">>, <<"F","e","b">>, <<"M","a","r">>, <<"A","p","r">>,
    <<"M","a","y">>, <<"J","u","n">>, <<"J","u","l">>, <<"A","u","g">>,
    <<"S","e","p">>, <<"O","c","t">>, <<"N","o","v">>, <<"D","e","c">>>>

\* /(Jan|...|Dec)\s+(\d+)\s+(\d+):(\d+)\s+(AM|PM)/ as the sequence of its
\* elements: an alternation of literals, or one or more characters of a class
DatePattern ==
  <<[alts |-> {MonthNames[m] : m \in 1..12}], [class |-> Whitespace],
    [class |-> Digits], [class |-> Whitespace], [class |-> Digits],
    [alts |-> {<<":">>}], [class |-> Digits], [class |-> Whitespace],
    [alts |-> {<<"A","M">>, <<"P","M">>}]>>

\* the text each element of the pattern from the k-th on matches at position
\* i, up to the first element that does not match; a class takes the whole
\* run of its characters
RECURSIVE Scan(_, _, _)
Scan(dateStr, i, k) ==
  LET IsAt(a) == /\ i + Len(a) - 1 <= Len(dateStr)
                 /\ SubSeq(dateStr, i, i + Len(a) - 1) = a
      elementLen ==
        IF "class" \in DOMAIN DatePattern[k]
        THEN RunLen(dateStr, i, DatePattern[k].class)
        ELSE IF \E a \in DatePattern[k].alts : IsAt(a)
             THEN Len(The(DatePattern[k].alts))
             ELSE 0
  IN  IF k > Len(DatePattern) THEN << >>
      ELSE The({IF n = 0 THEN << >>
                ELSE <<SubSeq(dateStr, i, i + n - 1)>>
                       \o Scan(dateStr, i + n, k + 1) :
                  n \in {elementLen}})

\* dateStr.match(...): the groups of the leftmost match, read by monthMap
\* and parseInt
DateMatch(dateStr) ==
  The({IF starts = {} THEN [ok |-> FALSE]
       ELSE The({[ok |-> TRUE,
                  month |-> (CHOOSE m \in 1..12 : MonthNames[m] = match[1]) - 1,
                  day |-> parseInt(match[3]),
                  hour |-> parseInt(match[5]),
                  minute |-> parseInt(match[7]),
                  isPM |-> match[9] = <<"P","M">>] :
                   match \in {Scan(dateStr,
                                   CHOOSE p \in starts : \A q \in starts : p <= q,
                                   1)}}) :
        starts \in {{p \in 1..Len(dateStr) :
                       Len(Scan(dateStr, p, 1)) = Len(DatePattern)}}})

\* parseReceiptDate(r.date) evaluated at the instant now: the Date, or null
\* (ok = FALSE) when nothing matches or r.date is not a string
NullDate == [ok |-> FALSE, t |-> 0]

\* parseReceiptDate without the two cases of the hour 12
parseReceiptDate_NoTwelve(r, now) ==
  IF ~r.hasDate THEN NullDate
  ELSE The({IF ~match.ok THEN NullDate
            ELSE The({[ok |-> TRUE,
                       t |-> IF date > now
                             THEN date - ((date \div YearSeconds) + 1) * YearSeconds
                             ELSE date] :
                        date \in {MakeDate(match.month, match.day,
                                    IF match.isPM THEN match.hour + 12
                                    ELSE match.hour,
                                    match.minute)}}) :
              match \in {DateMatch(r.date)}})

\* parseReceiptDate(r.date) at the instant now
parseReceiptDate(r, now) ==
  IF ~r.hasDate THEN NullDate
  ELSE The({IF ~match.ok THEN NullDate
            ELSE The({[ok |-> TRUE,
                       t |-> IF date > now
                             THEN date - ((date \div YearSeconds) + 1) * YearSeconds
                             ELSE date] :
                        date \in {MakeDate(match.month, match.day,
                                    IF match.isPM /\ match.hour # 12
                                    THEN match.hour + 12
                                    ELSE IF ~match.isPM /\ match.hour = 12
                                    THEN 0 ELSE match.hour,
                                    match.minute)}}) :
              match \in {DateMatch(r.date)}})

\* filteredReceipts under the time filter; the callback of receipts.filter
\* drops a receipt whose date it cannot parse, where the revision
\* src/src/App.jsx keeps it (line 406)
filteredReceipts(log, timeFilter, now, revision) ==
  LET Kept(r) ==
        \E receiptDate \in {parseReceiptDate(r, now)} :
          IF ~receiptDate.ok THEN revision = "App.jsx"
          ELSE now - receiptDate.t <= 24 * 60 * 60 /\ now - receiptDate.t >= 0
  IN  IF timeFilter = "24h" THEN SelectSeq(log, Kept) ELSE log

\* r.clout || 0
Clout(r) == IF r.hasClout THEN r.clout ELSE 0

\* list.reduce((sum, r) => sum + (r.clout || 0), 0)
RECURSIVE SumClout(_)
SumClout(list) ==
  IF list = << >> THEN 0 ELSE Clout(Head(list)) + SumClout(Tail(list))

\* a mutant of the flow: the series runs over the log in its stored order
cloutFlow_NoReverse(filtered) ==
  [i \in 1..Len(filtered) |->
     [index |-> i - 1,
      clout |-> Clout(filtered[i]),
      total |-> SumClout(SubSeq(filtered, 1, i))]]

\* filteredReceipts.slice().reverse().reduce(...): acc after the i-th push
RECURSIVE cloutFlow(_)
cloutFlow(filtered) ==
  IF filtered = << >> THEN << >>
  ELSE LET acc == cloutFlow(Tail(filtered))
           i == Len(acc)
           r == Head(filtered)
           prev == IF i = 0 THEN 0
                   ELSE IF acc[i].total = 0 THEN 0 ELSE acc[i].total
       IN  Append(acc, [index |-> i, clout |-> Clout(r),
                        total |-> prev + Clout(r)])

\* x.toFixed(0) read back by parseInt, for x = n / d with d > 0: the nearest
\* integer, a tie going away from zero
ToFixed0(n, d) ==
  IF n >= 0 THEN (2 * n + d) \div (2 * d) ELSE 0 - ((2 * (0 - n) + d) \div (2 * d))

\* a mutant of the window: the return is taken on the earnings, the bounty
\* amount is not subtracted
bountyWindow_Gross(bounty, name, filtered, now) ==
  LET bountyDate == parseReceiptDate(bounty, now)
      InWindow(r) ==
        /\ r.concept = name
        /\ \E receiptDate \in {parseReceiptDate(r, now)}, start \in {bountyDate.t} :
             /\ receiptDate.ok
             /\ receiptDate.t >= start
             /\ receiptDate.t <= start + 24 * 60 * 60
      windowEarnings == SumClout(SelectSeq(filtered, InWindow))
  IN  IF ~bountyDate.ok THEN [amount |-> bounty.amount, earned |-> 0, roi |-> -100]
      ELSE [amount |-> bounty.amount,
            earned |-> windowEarnings,
            roi |-> IF bounty.amount > 0
                    THEN ToFixed0(windowEarnings * 100, bounty.amount)
                    ELSE 0]

\* one element of bountyWindows: the callback of conceptBounties.map
bountyWindow(bounty, name, filtered, now) ==
  LET bountyDate == parseReceiptDate(bounty, now)
      InWindow(r) ==
        /\ r.concept = name
        /\ \E receiptDate \in {parseReceiptDate(r, now)}, start \in {bountyDate.t} :
             /\ receiptDate.ok
             /\ receiptDate.t >= start
             /\ receiptDate.t <= start + 24 * 60 * 60
      windowEarnings == SumClout(SelectSeq(filtered, InWindow))
  IN  IF ~bountyDate.ok THEN [amount |-> bounty.amount, earned |-> 0, roi |-> -100]
      ELSE [amount |-> bounty.amount,
            earned |-> windowEarnings,
            roi |-> IF bounty.amount > 0
                    THEN ToFixed0((windowEarnings - bounty.amount) * 100,
                                  bounty.amount)
                    ELSE 0]

\* conceptBounties.reduce((sum, b) => sum + b.amount, 0)
RECURSIVE totalBountyCost(_)
totalBountyCost(conceptBounties) ==
  IF conceptBounties = << >> THEN 0
  ELSE totalBountyCost(SubSeq(conceptBounties, 1, Len(conceptBounties) - 1))
         + conceptBounties[Len(conceptBounties)].amount

\* conceptData with profitable: netIncome >= 0
conceptData_BreakEven(filtered, tagged, now) ==
  LET names == {filtered[k].concept : k \in 1..Len(filtered)} \ {""}
  IN  [name \in names |->
         LET OfConcept(r) == r.concept = name
             conceptBounties == IF name \in DOMAIN tagged THEN tagged[name] ELSE << >>
         IN  The({[clout |-> clout,
                   bountyCost |-> bountyCost,
                   netIncome |-> clout - bountyCost,
                   profitable |-> clout - bountyCost >= 0,
                   bountyWindows |->
                     [b \in 1..Len(conceptBounties) |->
                        bountyWindow(conceptBounties[b], name, filtered, now)]] :
                    clout \in {SumClout(SelectSeq(filtered, OfConcept))},
                    bountyCost \in {totalBountyCost(conceptBounties)}})]

\* conceptData, by concept name: the concept's income, bounty cost, net
\* income, profitable flag and bounty windows
conceptData(filtered, tagged, now) ==
  LET names == {filtered[k].concept : k \in 1..Len(filtered)} \ {""}
  IN  [name \in names |->
         LET OfConcept(r) == r.concept = name
             conceptBounties == IF name \in DOMAIN tagged THEN tagged[name] ELSE << >>
         IN  The({[clout |-> clout,
                   bountyCost |-> bountyCost,
                   netIncome |-> clout - bountyCost,
                   profitable |-> clout - bountyCost > 0,
                   bountyWindows |->
                     [b \in 1..Len(conceptBounties) |->
                        bountyWindow(conceptBounties[b], name, filtered, now)]] :
                    clout \in {SumClout(SelectSeq(filtered, OfConcept))},
                    bountyCost \in {totalBountyCost(conceptBounties)}})]

(***************************************************************************)
(* The component rendered on drawn logs, bounties and instants             *)
(***************************************************************************)
Event(date, clout, concept) ==
  [hasDate |-> TRUE, date |-> date, hasClout |-> TRUE, clout |-> clout,
   concept |-> concept]

EventNoDate == [Event(<< >>, 1, "") EXCEPT !.hasDate = FALSE]
EventNoClout == [Event(TS_Oct19_0115PM, 0, "") EXCEPT !.hasClout = FALSE]

Bounty(date, amount) == [hasDate |-> TRUE, date |-> date, amount |-> amount]

\* the instants of a render: Oct 19 1:15:00 PM, Oct 19 1:15:30 PM and
\* Jan 1 12:10:00 AM
Now_Oct19_0115PM == MakeDate(9, 19, 13, 15)
Now_Jan01_0010AM == MakeDate(0, 1, 0, 10)
Nows == {Now_Oct19_0115PM, Now_Oct19_0115PM + 30, Now_Jan01_0010AM}

\* logs for the time filter: timestamps inside, outside and on the edge of
\* the last 24 hours, and timestamps that cannot be parsed
FilterLogs ==
  SeqsUpTo({Event(ts, 1, "") :
              ts \in {TS_Oct18_0115PM, TS_Oct18_1159PM, TS_Oct19_0115PM,
                      TS_Oct20_0900AM, TS_Dec31_1150PM, TS_Blank,
                      TS_oct18_lower, TS_Yesterday}}
             \cup {EventNoDate}, MaxFilterLog)

\* logs and bounties for the bounty windows of the concept "neon"
RoiLogs ==
  SeqsUpTo({Event(ts, c, "neon") :
              ts \in {TS_Oct18_0115PM, TS_Oct19_0115PM, TS_Oct20_0900AM,
                      TS_Yesterday},
              c \in {0, 150}}, MaxRoiLog)

RoiBounties ==
  {("neon" :> <<Bounty(ts, a)>>) :
     ts \in {TS_Oct18_0115PM, TS_Yesterday}, a \in {0, 7, 100}}
    \cup {"neon" :> <<Bounty(TS_Oct18_0115PM, 100), Bounty(TS_Oct19_0115PM, 0)>>}

\* logs for the cumulative flow
FlowLogs ==
  SeqsUpTo({Event(TS_Oct19_0115PM, c, "") : c \in {10, -5, 20, -10}}
             \cup {EventNoClout}, MaxFlowLog)

StatInputs ==
  {[receipts |-> log, bounties |-> EmptyObject, now |-> now] :
     log \in FilterLogs, now \in Nows}
    \cup {[receipts |-> log, bounties |-> EmptyObject, now |-> Now_Oct19_0115PM] :
            log \in FlowLogs}
    \cup {[receipts |-> log, bounties |-> tagged, now |-> Now_Oct19_0115PM] :
            log \in RoiLogs, tagged \in RoiBounties}

\* the derived values of a render
Rendered(in, timeFilter, revision) ==
  LET filtered == filteredReceipts(in.receipts, timeFilter, in.now, revision)
  IN  [filteredReceipts |-> filtered,
       conceptData |-> conceptData(filtered, in.bounties, in.now),
       cloutFlow |-> cloutFlow(filtered)]

InitStats ==
  /\ pd \in {[stage |-> "start", revision |-> revision, in |-> in,
              timeFilter |-> "all",
              out |-> [filteredReceipts |-> << >>, conceptData |-> << >>,
                       cloutFlow |-> << >>]] :
               in \in StatInputs, revision \in {"part_000", "App.jsx"}}
  /\ InitWith({<< >>}, {NoUserData}, {NoLocal})

\* the first render, under the initial filter useState('all')
Render ==
  /\ pd.stage = "start"
  /\ pd' = [pd EXCEPT !.stage = "rendered",
                      !.out = Rendered(pd.in, pd.timeFilter, pd.revision)]
  /\ UNCHANGED sysVars

\* setTimeFilter('all') / setTimeFilter('24h') and the render that follows;
\* the buttons are shown when the log is not empty
SetTimeFilter ==
  /\ pd.stage = "rendered"
  /\ pd.in.receipts # << >>
  /\ \E timeFilter \in {"all", "24h"} :
       pd' = [pd EXCEPT !.timeFilter = timeFilter,
                        !.out = Rendered(pd.in, timeFilter, pd.revision)]
  /\ UNCHANGED sysVars

NextStats == Render \/ SetTimeFilter

SpecStats == InitStats /\ [][NextStats]_vars
(***************************************************************************)
(* A long flat collection converted at session start, then cleared: the    *)
(* conversion and the deletion of its bucket both take several commits     *)
(***************************************************************************)
\* receipts of the flat collection, all of one day
BatchLegacy == 500

BatchFlat == [n \in 1..BatchLegacy |-> NSmall + n]

\* a flat collection one document longer than one batch can hold
OverFlat == [n \in 1..StoreBatchCeiling + 1 |-> NSmall + n]

InitBatches ==
  /\ pd = NoRun
  /\ InitWith({BatchFlat, OverFlat, << >>}, LegacyBlobs, {NoLocal})

NextBatches == Login \/ LoadStep \/ HandleClear \/ ClearStep

SpecBatches == InitBatches /\ [][NextBatches]_vars
(***************************************************************************)
(* A bulk delete of more buckets than one group holds, with storage        *)
(* failures                                                                *)
(***************************************************************************)
\* days of the stored log: one group of PARALLEL_CHUNK_SIZE and one more
FanoutDays == 11

\* a stored log of one receipt per day
FanoutLog == [n \in 1..FanoutDays |-> DayBase + n]

\* signed in, the load complete: the log and the one untagged bounty in
\* memory are what the store holds
InitFanout ==
  /\ pd = NoRun
  /\ user = TRUE
  /\ \E log \in {FanoutLog} :
       /\ receipts = log
       /\ receipts_by_date = DateDocsAfter(<< >>, MigrateOps(log))
       /\ items = ItemsAfter(<< >>, MigrateOps(log))
  /\ bounties = EmptyObject
  /\ untaggedBounties = <<4>>
  /\ isLoading = FALSE
  /\ deleteProgress = NoProgress
  /\ deleteProgressRef = NoProgress
  /\ poll = [current |-> FALSE, leaked |-> FALSE]
  /\ localStorage = NoLocal
  /\ metadata = [NoMetadata EXCEPT !.exists = TRUE, !.untaggedBounties = <<4>>]
  /\ legacyReceipts = << >>
  /\ userData = NoUserData
  /\ load = [IdleLoad EXCEPT !.pc = "done"]
  /\ saves = << >>
  /\ clear = IdleClear
  /\ failures = 0
  /\ converted = {}
  /\ userOps = 0
  /\ alert = "none"

\* a call of a sub-task fails once the first group is through
ClearSubFailLate(b) == clear.chunk > 0 /\ ClearSubFail(b)

\* the deletion task alone: the progress timer only copies the shared
\* counter into the displayed one, which no step of the task reads.  The
\* listing, the metadata commit and the calls of the later groups may fail.
NextFanout ==
  \/ HandleClear
  \/ ClearDates
  \/ \E b \in DOMAIN clear.sub : ClearItems(b)
  \/ \E b \in DOMAIN clear.sub : ClearCommit(b)
  \/ ClearMetadata
  \/ ClearFail
  \/ \E b \in DOMAIN clear.sub : ClearSubFailLate(b)

SpecFanout == InitFanout /\ [][NextFanout]_vars
(***************************************************************************)
(* Bulk deletes that overlap: a delete has failed at the first call of one *)
(* bucket while the tasks of the other buckets of its group still run, and *)
(* the user, whose buttons the failure has enabled again, clears again     *)
(***************************************************************************)
\* the logs stored before the first delete: two and three days
OverlapLogs == {<<1, 3>>, <<1, 3, 8>>}

\* the state right after the delete has failed (HandleClear, ClearDates,
\* ClearSubFail of one bucket)
InitOverlap ==
  /\ pd = NoRun
  /\ user = TRUE
  /\ \E log \in OverlapLogs :
       /\ receipts_by_date = DateDocsAfter(<< >>, MigrateOps(log))
       /\ items = ItemsAfter(<< >>, MigrateOps(log))
       /\ \E docs \in {SortedIds(DOMAIN DateDocsAfter(<< >>, MigrateOps(log)))} :
            /\ deleteProgressRef = [current |-> 0, total |-> Len(docs)]
            /\ \E failed \in 1..Len(docs) :
                 clear = [IdleClear EXCEPT
                            !.pc = "failed", !.docs = docs,
                            !.sub = [b \in {docs[n] : n \in 1..Len(docs)} |->
                                       IF b = docs[failed] THEN SubTask("failed")
                                       ELSE SubTask("items")]]
  /\ receipts = << >>
  /\ bounties = EmptyObject
  /\ untaggedBounties = << >>
  /\ isLoading = FALSE
  /\ deleteProgress = NoProgress
  /\ poll = [current |-> FALSE, leaked |-> TRUE]
  /\ localStorage = NoLocal
  /\ metadata = [NoMetadata EXCEPT !.exists = TRUE]
  /\ legacyReceipts = << >>
  /\ userData = NoUserData
  /\ load = [IdleLoad EXCEPT !.pc = "done"]
  /\ saves = << >>
  /\ failures = 0
  /\ converted = {}
  /\ userOps = 0
  /\ alert = "clearFailed"

NextOverlap == HandleClear \/ HandleClearOver \/ ClearStep \/ OrphanStep

SpecOverlap == InitOverlap /\ [][NextOverlap]_vars
(***************************************************************************)
(* Tagging bounties: the bounty modal and handleAddBounty, next to pastes  *)
(* and their background saves.  In this specification pd holds the state   *)
(* of the modal: showBountyModal, selectedBounty, selectedConcept, and the *)
(* saves whose end a call of handleAddBounty awaits.                       *)
(***************************************************************************)
\* useState(null) of selectedBounty
NoBounty == [r |-> 0, index |-> -1]

\* the modal closed, nothing selected
ModalClosed ==
  [showBountyModal |-> FALSE, selectedBounty |-> NoBounty, selectedConcept |-> "",
   awaiting |-> << >>]

\* the concept of a catalogued receipt ("" when it has none)
ConceptOf(r) == IF r = 1 THEN "neon" ELSE IF r = 2 THEN "zen" ELSE ""

\* the names of conceptData: the concepts of the events of the log
ConceptNames == {ConceptOf(receipts[k]) : k \in 1..Len(receipts)} \ {""}

\* the main screen is rendered, not the loading or the progress screen
MainScreen == ~isLoading

\* the modal is on the screen
ModalShown == MainScreen /\ pd.showBountyModal

\* a call of handleAddBounty is about to go on after its await: the save it
\* awaits is no longer pending.  The continuation runs before any other event.
ReturnDue ==
  /\ pd.awaiting # << >>
  /\ \A k \in 1..Len(saves) : saves[k] # Head(pd.awaiting)

\* every variable of the component but the alert
sysVarsButAlert ==
  <<user, memVars, isLoading, progressVars, localStorage, storeVars, load, saves,
    clear, failures, converted, userOps>>

\* the "tag bounties" button
OpenBountyModal ==
  /\ ~ReturnDue
  /\ MainScreen
  /\ ~pd.showBountyModal
  /\ ConceptNames # {}
  /\ untaggedBounties # << >>
  /\ pd' = [pd EXCEPT !.showBountyModal = TRUE]
  /\ alert' = "none"
  /\ UNCHANGED sysVarsButAlert

\* a click on the i-th untagged bounty of the modal: {...bounty, index: i}
SelectBounty ==
  /\ ~ReturnDue
  /\ ModalShown
  /\ \E i \in 0..(Len(untaggedBounties) - 1) :
       /\ pd.selectedBounty # [r |-> untaggedBounties[i + 1], index |-> i]
       /\ pd' = [pd EXCEPT !.selectedBounty =
                   [r |-> untaggedBounties[i + 1], index |-> i]]
  /\ alert' = "none"
  /\ UNCHANGED sysVarsButAlert

\* the select of the modal, rendered once a bounty is selected
SelectConcept ==
  /\ ~ReturnDue
  /\ ModalShown
  /\ untaggedBounties # << >>
  /\ pd.selectedBounty # NoBounty
  /\ \E name \in ConceptNames :
       /\ pd.selectedConcept # name
       /\ pd' = [pd EXCEPT !.selectedConcept = name]
  /\ alert' = "none"
  /\ UNCHANGED sysVarsButAlert

\* the "close" button of the modal, rendered once a bounty is selected
CloseBountyModal ==
  /\ ~ReturnDue
  /\ ModalShown
  /\ untaggedBounties # << >>
  /\ pd.selectedBounty # NoBounty
  /\ pd' = [ModalClosed EXCEPT !.awaiting = pd.awaiting]
  /\ alert' = "none"
  /\ UNCHANGED sysVarsButAlert

\* untaggedBounties.filter((_, i) => i !== index)
FilterIndex(list, index) ==
  IF index + 1 \in 1..Len(list)
  THEN SubSeq(list, 1, index) \o SubSeq(list, index + 2, Len(list))
  ELSE list

\* {amount: selectedBounty.clout, date: selectedBounty.date}
TaggedBounty(r) == [amount |-> Receipt(r).clout, date |-> Receipt(r).date]

\* {...bounties, [selectedConcept]: conceptBounties} after the push
WithBounty(all, name, r) ==
  SetAt(all, name,
        Append(IF name \in DOMAIN all THEN all[name] ELSE << >>, TaggedBounty(r)))

\* handleAddBounty up to its await, from the "assign bounty" button; for a
\* user who is not signed in nothing is awaited and the modal closes at once
HandleAddBounty ==
  /\ ~ReturnDue
  /\ ModalShown
  /\ untaggedBounties # << >>
  /\ pd.selectedBounty # NoBounty
  /\ pd.selectedConcept # ""
  /\ userOps < MaxUserOps
  /\ userOps' = userOps + 1
  /\ \E newBounties \in {WithBounty(bounties, pd.selectedConcept, pd.selectedBounty.r)} :
     \E remaining \in {FilterIndex(untaggedBounties, pd.selectedBounty.index)} :
       /\ bounties' = newBounties
       /\ untaggedBounties' = remaining
       /\ SaveToStorage(receipts, newBounties, remaining)
       /\ IF user
          THEN /\ isLoading' = TRUE
               /\ pd' = [pd EXCEPT !.awaiting =
                           Append(@, [receipts |-> receipts,
                                      newReceipts |-> receipts,
                                      newBounties |-> newBounties,
                                      newUntagged |-> remaining])]
          ELSE /\ UNCHANGED isLoading
               /\ pd' = [ModalClosed EXCEPT !.awaiting = pd.awaiting]
  /\ clear' = Disturbed
  /\ alert' = "none"
  /\ UNCHANGED <<user, receipts, progressVars, storeVars, load, failures, converted>>

\* handleAddBounty after await saveToStorage(...): the modal is closed and
\* the selection dropped
AddBountyReturns ==
  /\ ReturnDue
  /\ pd' = [ModalClosed EXCEPT !.awaiting = Tail(pd.awaiting)]
  /\ alert' = "none"
  /\ UNCHANGED sysVarsButAlert

\* the untagged bounties the session starts with
TagUntagged == {<<4>>, <<4, 2>>}

\* the load complete (signed in) or the local cache read (not signed in):
\* a log of one event and untagged bounties, the same in memory and in
\* the store or the cache
InitTag ==
  /\ pd = ModalClosed
  /\ user \in BOOLEAN
  /\ \E log \in {<<1>>} : \E untagged \in TagUntagged :
       /\ receipts = log
       /\ untaggedBounties = untagged
       /\ IF user
          THEN /\ receipts_by_date = DateDocsAfter(<< >>, MigrateOps(log))
               /\ items = ItemsAfter(<< >>, MigrateOps(log))
               /\ metadata = [exists |-> TRUE, bounties |-> EmptyObject,
                              untaggedBounties |-> untagged]
               /\ localStorage = NoLocal
          ELSE /\ receipts_by_date = << >>
               /\ items = << >>
               /\ metadata = NoMetadata
               /\ localStorage = [has |-> TRUE, receipts |-> log,
                                  bounties |-> EmptyObject,
                                  untaggedBounties |-> untagged]
  /\ bounties = EmptyObject
  /\ isLoading = FALSE
  /\ deleteProgress = NoProgress
  /\ deleteProgressRef = NoProgress
  /\ poll = [current |-> FALSE, leaked |-> FALSE]
  /\ legacyReceipts = << >>
  /\ userData = NoUserData
  /\ load = IF user THEN [IdleLoad EXCEPT !.pc = "done"] ELSE IdleLoad
  /\ saves = << >>
  /\ clear = IdleClear
  /\ failures = 0
  /\ converted = {}
  /\ userOps = 0
  /\ alert = "none"

\* the paste button lies under the modal
TagPaste == ~ReturnDue /\ ~pd.showBountyModal /\ AddingPaste

NextTag ==
  \/ AddBountyReturns
  \/ OpenBountyModal
  \/ SelectBounty
  \/ SelectConcept
  \/ CloseBountyModal
  \/ HandleAddBounty
  \/ TagPaste
  \/ ~ReturnDue /\ SaveCommit
  \/ ~ReturnDue /\ SaveFail

SpecTag == InitTag /\ [][NextTag]_vars

(***************************************************************************)
(* parseReceiptDate applied to drawn timestamps                            *)
(***************************************************************************)
\* the decimal digits of a natural number
RECURSIVE Decimal(_)
Decimal(n) ==
  (IF n >= 10 THEN Decimal(n \div 10) ELSE << >>)
    \o <<CHOOSE c \in Digits : Code10(c) = n % 10>>

\* the text "<Mon> <day> <h>:<mm> <AM|PM>" of a receipt, its parts separated
\* by the white space gap
Stamp(month, day, h, mm, pm, gap) ==
  MonthNames[month] \o gap \o Decimal(day) \o gap \o Decimal(h) \o <<":">>
    \o (IF mm < 10 THEN <<"0">> ELSE << >>) \o Decimal(mm)
    \o gap \o (IF pm THEN <<"P","M">> ELSE <<"A","M">>)

\* timestamps of the format: the first and the last day of the year, the
\* days and minutes of the instants of Nows, noon and midnight hours
StampFields ==
  {[matching |-> TRUE, month |-> month, day |-> day, h |-> h, mm |-> mm, pm |-> pm] :
     month \in {1, 2, 10, 12}, day \in {1, 19, 31}, h \in {1, 12},
     mm \in {0, 10, 15}, pm \in BOOLEAN}

\* the format inside a longer text, and with wider white space
StampTexts(f) ==
  {Stamp(f.month, f.day, f.h, f.mm, f.pm, <<" ">>)}
    \cup (IF f.day = 19 /\ f.mm = 15
          THEN {<<"a","t"," ">> \o Stamp(f.month, f.day, f.h, f.mm, f.pm, <<" ">>),
                Stamp(f.month, f.day, f.h, f.mm, f.pm, <<" ","\t">>)}
          ELSE {})

\* texts the format does not match
TS_NoMeridiem == <<"O","c","t"," ","1","9"," ","1","3",":","1","5">>
TS_NoGap      == <<"O","c","t"," ","1","9"," ","1",":","1","5","P","M">>
TS_NoMinutes  == <<"O","c","t"," ","1","9"," ","1"," ","P","M">>

OtherTexts ==
  {TS_Blank, TS_oct18_lower, TS_Yesterday, TS_NoMeridiem, TS_NoGap, TS_NoMinutes,
   << >>}

ParseInputs ==
  {[stamp |-> f,
     r |-> [hasDate |-> TRUE,
            date |-> Stamp(f.month, f.day, f.h, f.mm, f.pm, <<" ">>)],
     now |-> now] : f \in StampFields, now \in Nows}
    \cup UNION {{[stamp |-> f, r |-> [hasDate |-> TRUE, date |-> text],
                  now |-> Now_Oct19_0115PM] : text \in StampTexts(f)} :
                  f \in StampFields}
    \cup {[stamp |-> [matching |-> FALSE], r |-> [hasDate |-> TRUE, date |-> text],
           now |-> now] : text \in OtherTexts, now \in Nows}
    \cup {[stamp |-> [matching |-> FALSE], r |-> [hasDate |-> FALSE, date |-> << >>],
           now |-> now] : now \in Nows}

InitParse ==
  /\ pd \in {[stage |-> "start", in |-> in, out |-> NullDate] : in \in ParseInputs}
  /\ InitWith({<< >>}, {NoUserData}, {NoLocal})

\* one call of parseReceiptDate(r.date) at the instant now
ParseCall ==
  /\ pd.stage = "start"
  /\ pd' = [pd EXCEPT !.stage = "parsed",
                      !.out = parseReceiptDate(pd.in.r, pd.in.now)]
  /\ UNCHANGED sysVars

NextParse == ParseCall

SpecParse == InitParse /\ [][NextParse]_vars

(***************************************************************************)
(* Pastes of every clipboard, signed in and signed out, and their saves    *)
(***************************************************************************)
\* the session is under way: signed out with the log in the local cache, or
\* signed in with the load complete and the log stored
InitPaste ==
  /\ pd = NoRun
  /\ user \in BOOLEAN
  /\ receipts \in {log \in SeqsUpTo(PasteIds, 1) : Reconcile(<< >>, log).toAdd = log}
  /\ bounties = EmptyObject
  /\ untaggedBounties = << >>
  /\ isLoading = FALSE
  /\ deleteProgress = NoProgress
  /\ deleteProgressRef = NoProgress
  /\ poll = [current |-> FALSE, leaked |-> FALSE]
  /\ localStorage = IF user \/ receipts = << >> THEN NoLocal
                    ELSE [NoLocal EXCEPT !.has = TRUE, !.receipts = receipts]
  /\ receipts_by_date = IF user THEN DateDocsAfter(<< >>, MigrateOps(receipts))
                        ELSE << >>
  /\ items = IF user THEN ItemsAfter(<< >>, MigrateOps(receipts)) ELSE << >>
  /\ metadata = IF user THEN [NoMetadata EXCEPT !.exists = TRUE] ELSE NoMetadata
  /\ legacyReceipts = << >>
  /\ userData = NoUserData
  /\ load = IF user THEN [IdleLoad EXCEPT !.pc = "done"] ELSE IdleLoad
  /\ saves = << >>
  /\ clear = IdleClear
  /\ failures = 0
  /\ converted = {}
  /\ userOps = 0
  /\ alert = "none"

\* a paste of any clipboard
AnyPaste == \E parsed \in PasteInputs : HandlePaste(parsed, MaxLog)

NextPaste ==
  \/ AnyPaste
  \/ SaveCommit
  \/ SaveFail

SpecPaste == InitPaste /\ [][NextPaste]_vars

(***************************************************************************)
(* The system with every remote call eventually returning or failing       *)
(*                                                                         *)
(* Weak fairness of the responses of the store, with the condition under   *)
(* which a response is due written as a state predicate: a call that is    *)
(* awaited is not awaited for ever.                                        *)
(***************************************************************************)
\* loadFromFirestore awaits a call
LoadInFlight == load.pc \notin {"idle", "done", "failed"}

\* the call the load awaits returns or fails: the load moves on
LoadResponse == LoadInFlight /\ load' # load

\* a save awaits its commit
SaveInFlight == saves # << >>

\* the commit of the oldest pending save returns or fails
SaveResponse == SaveInFlight /\ saves' = Tail(saves)

\* the bulk delete or one of its bucket tasks awaits a call
ClearInFlight == ClearRunning \/ \E b \in DOMAIN clear.sub : SubRunning(b)

\* a call of the bulk delete or of a bucket task returns or fails: the
\* task moves on
ClearResponse ==
  /\ ClearInFlight
  /\ clear'.pc # clear.pc \/ clear'.sub # clear.sub \/ clear'.chunk # clear.chunk

\* user operations (sign in, sign out, paste, clear) in one behaviour
MaxLiveOps == 2

\* the clipboards pasted here: one receipt in either shape, or one receipt
\* together with a bounty
LivePastes == {parsed \in PasteInputs : Len(parsed.receipts) = 1}

LivePaste ==
  \E parsed \in LivePastes : HandlePaste(parsed, MaxLog) /\ alert' = "added"

\* nobody is signed in and the user may own legacy data, or the session is
\* under way with the load complete and the log stored
InitLive == Init \/ InitSave

\* the user still acts
UserActs == userOps < MaxLiveOps

NextLive ==
  \/ UserActs /\ LivePaste
  \/ UserActs /\ Login
  \/ UserActs /\ Logout
  \/ UserActs /\ HandleClear
  \/ SaveCommit
  \/ SaveFail
  \/ LoadStep
  \/ ClearStep

SpecLive == InitLive /\ [][NextLive]_vars

\* every remote call eventually returns or fails
ResponsesReturn ==
  /\ []<>(~LoadInFlight) \/ []<><<LoadResponse>>_vars
  /\ []<>(~SaveInFlight) \/ []<><<SaveResponse>>_vars
  /\ []<>(~ClearInFlight) \/ []<><<ClearResponse>>_vars

FairSpec == SpecLive /\ ResponsesReturn

\* the same for the system of Spec
FairSystem == Spec /\ ResponsesReturn

\* an operation in flight can always take a step: the operations with the
\* system at rest left to stutter (checked for deadlock)
NextOrRest == NextLive \/ (Quiet /\ UNCHANGED vars)

SpecRest == InitLive /\ [][NextOrRest]_vars
(***************************************************************************)
(* Claims about the Event Deduplicator (checked under SpecDedup)           *)
(***************************************************************************)
\* number of receipts of the log with the same timestamp string as receipt r
SameKeyCount(log, r) ==
  Cardinality({k \in 1..Len(log) : DateKey(log[k]) = DateKey(r)})

\* the elements of s at the indexes in keep, in the order of s
Restrict(s, keep) ==
  [n \in 1..Cardinality(keep) |->
     s[CHOOSE j \in keep : Cardinality({k \in keep : k < j}) = n - 1]]

\* indexes of the incoming receipts that carry a timestamp
Dated(incoming) == {j \in 1..Len(incoming) : ~MissingDate(incoming[j])}

\* C1: Dedup idempotence -- once a batch has been reconciled and its toAdd
\* appended to the log, reconciling the same batch again adds nothing.
C1_DedupIdempotence ==
  pd.stage = "repasted" => pd.again = << >>

\* C1 witness: a batch that added receipts the first time is pasted again.
C1_Witness ==
  pd.stage = "repasted" /\ Len(pd.toAdd) >= 2

\* C2: Position identity -- for every timestamp string t present on a dated
\* incoming receipt, with e receipts of the log and n dated incoming receipts
\* carrying t, exactly max(0, n - e) are added, namely the incoming receipts
\* at zero-based positions >= e of the t-group, and toAdd lists the added
\* receipts of all groups in incoming order.
C2_PositionIdentity ==
  pd.stage # "start" =>
    LET inc == pd.incoming
        keep == {j \in Dated(inc) :
                   SameKeyCount(SubSeq(inc, 1, j - 1), inc[j])
                     >= SameKeyCount(pd.existing, inc[j])}
    IN  /\ pd.toAdd = Restrict(inc, keep)
        /\ \A j \in Dated(inc) :
             LET e == SameKeyCount(pd.existing, inc[j])
                 n == SameKeyCount(inc, inc[j])
             IN  SameKeyCount(pd.toAdd, inc[j]) = IF n > e THEN n - e ELSE 0

\* C2 witness: the log holds two receipts stamped A and the batch holds three;
\* exactly the third is added.
C2_Witness ==
  /\ pd.stage = "pasted"
  /\ pd.existing = <<1, 1>>
  /\ pd.incoming = <<1, 1, 4>>
  /\ pd.toAdd = <<4>>

\* C3: Missing-timestamp rejection -- an incoming receipt whose timestamp is
\* absent, empty or only white space is never added, each one adds exactly
\* one to the skipped counter, and the receipts added are those the batch
\* without these receipts would add.
C3_MissingTimestampRejected ==
  pd.stage # "start" =>
    /\ \A k \in 1..Len(pd.toAdd) : ~MissingDate(pd.toAdd[k])
    /\ pd.skipped = Len(pd.incoming) - Cardinality(Dated(pd.incoming))
    /\ pd.log = pd.existing \o pd.toAdd
    /\ pd.toAdd =
         Reconcile(pd.existing, Restrict(pd.incoming, Dated(pd.incoming))).toAdd

\* C3 witness: a batch mixing an absent, an empty and a dated timestamp.
C3_Witness ==
  /\ pd.stage = "pasted"
  /\ pd.incoming = <<6, 1, 7>>
  /\ pd.skipped = 2
  /\ pd.toAdd = <<1>>

(***************************************************************************)
(* Claims about the Migration Engine (checked under SpecMigrate)           *)
(***************************************************************************)
\* the events held by the item documents of the sharded shape
StoredEvents ==
  UNION {{items[id][p] : p \in DOMAIN items[id]} : id \in DOMAIN items}

\* every receipt of rs that carries a timestamp is stored as an item
AllStored(rs) ==
  LET stored == StoredEvents
  IN  \A k \in 1..Len(rs) : MissingDate(rs[k]) \/ rs[k] \in stored

\* the source the running load converts still holds what was read from it
SourceIntact ==
  IF load.src = "flat" THEN legacyReceipts = load.data
  ELSE IF load.src = "blob"
  THEN userData.exists /\ userData.receipts = load.data
  ELSE localStorage.has /\ localStorage.receipts = load.data

C5_InterruptedMigrationRetried ==
  (load.pc = "done" /\ legacyReceipts # << >>) => AllStored(legacyReceipts)

C7_SaveAppendOnly ==
  [][SaveCommit =>
       LET ops == SaveOps(Head(saves).receipts, Head(saves).newReceipts)
       IN  \A k \in 1..Len(ops) :
             ops[k].t = "item" =>
               ~(ops[k].id \in DOMAIN items /\ ops[k].n \in DOMAIN items[ops[k].id])]_vars

\* the receipts a save adds to the log it was called with
NewOf(s) == SubSeq(s.newReceipts, Len(s.receipts) + 1, Len(s.newReceipts))

\* number of receipts of rs whose day-bucket key is that of receipt r
SameDayCount(rs, r) == Cardinality({k \in 1..Len(rs) : Day(rs[k]) = Day(r)})

\* C8: For each day-bucket key among the new receipts of a save, the commit
\* leaves the bucket document with itemCount = (receipts of the pre-paste
\* log with that key) + (new receipts with that key) and the i-th new
\* receipt of the key (from 0, in paste order) at position (that existing
\* count) + i; no other item document is written.
C8_IncrementalSaveLayout ==
  [][SaveCommit =>
       LET pre == Head(saves).receipts
           new == NewOf(Head(saves))
           Slot(j) == <<dateId(Day(new[j])),
                        SameDayCount(pre, new[j])
                          + SameDayCount(SubSeq(new, 1, j - 1), new[j])>>
           Has(its, id, p) == id \in DOMAIN its /\ p \in DOMAIN its[id]
       IN  /\ \A j \in 1..Len(new) :
                /\ receipts_by_date'[Slot(j)[1]]
                     = SameDayCount(pre, new[j]) + SameDayCount(new, new[j])
                /\ Has(items', Slot(j)[1], Slot(j)[2])
                /\ items'[Slot(j)[1]][Slot(j)[2]] = new[j]
           /\ \A id \in DOMAIN items' : \A p \in DOMAIN items'[id] :
                \/ Has(items, id, p) /\ items[id][p] = items'[id][p]
                \/ \E j \in 1..Len(new) : Slot(j) = <<id, p>>
           /\ DOMAIN receipts_by_date'
                = DOMAIN receipts_by_date \cup {Slot(j)[1] : j \in 1..Len(new)}]_vars

\* C8 witness: two receipts of Oct 18 pasted after a stored one of the same
\* day have been committed at positions 1 and 2, the bucket counting 3.
C8_Witness ==
  /\ receipts = <<1, 2, 2>>
  /\ saves = << >>
  /\ receipts_by_date = (dateId(Day(1)) :> 3)
  /\ items = (dateId(Day(1)) :> (0 :> 1 @@ 1 :> 2 @@ 2 :> 2))

\* C9: The save's writes go through bounded batches -- no commit issued by
\* a save holds more operations than the store takes in one commit.
C9_SaveBatchesBounded ==
  \A k \in 1..Len(saves) : SaveBatchSize(saves[k]) <= StoreBatchCeiling

(***************************************************************************)
(* Claims about the bulk delete (checked under SpecClear)                  *)
(***************************************************************************)
\* the deletion task and every per-bucket task it started have ended
ClearTerminated ==
  /\ clear.pc \in {"done", "failed"}
  /\ \A b \in DOMAIN clear.sub : ~SubRunning(b)

\* bucket b has its document and as many items as the document counts
WholeBucket(b) ==
  /\ b \in DOMAIN receipts_by_date
  /\ b \in DOMAIN items
  /\ Cardinality(DOMAIN items[b]) = receipts_by_date[b]

\* C11: once the bulk delete has terminated, with success or with a storage
\* failure at any commit, every bucket either still has its bucket document
\* together with all of its items, or has neither document nor items.
C11_NoPartialBucket ==
  ClearTerminated =>
    \A b \in DOMAIN receipts_by_date \cup DOMAIN items : WholeBucket(b)

(***************************************************************************)
(* Claims about the session-start load (checked under SpecMigrate)         *)
(***************************************************************************)
\* occurrences of receipt r in the sequence rs
Count(rs, r) == Cardinality({k \in DOMAIN rs : rs[k] = r})

\* the two sequences hold the same events the same number of times
SameEvents(a, b) ==
  /\ Len(a) = Len(b)
  /\ \A r \in {a[k] : k \in DOMAIN a} : Count(a, r) = Count(b, r)

\* the events of every item document of the sharded shape
StoredSeq == LoadedReceipts(SortedIds(DOMAIN items))

\* C12: Hydration -- whenever the session-start load, with any migration it
\* performs, has completed without error, the in-memory log holds, as a
\* multiset, the events stored as items in the sharded shape.
C12_Hydration ==
  load.pc = "done" => SameEvents(receipts, StoredSeq)

\* the migration of the running load has issued every commit with success
MigrationComplete ==
  load.src # "none" /\ load.committed = Len(MigrateOps(load.data))

\* bucket id holds items at positions 0..n-1 and its document counts n
DenseBucket(id) ==
  /\ id \in DOMAIN receipts_by_date
  /\ DOMAIN items[id] = 0..(receipts_by_date[id] - 1)

\* C13: Migration conserves events -- after a migration that completed
\* successfully the events stored in the sharded shape are, as a multiset,
\* the source events that carry a timestamp; each bucket's items occupy
\* positions 0..n-1 with itemCount = n; every source event without a
\* timestamp is counted as skipped and written nowhere.
C13_MigrationConserves ==
  MigrationComplete =>
    /\ SameEvents(StoredSeq, DatedOnly(load.data))
    /\ DOMAIN items = DOMAIN receipts_by_date
    /\ \A id \in DOMAIN items : DenseBucket(id)
    /\ MigrateSkipped(load.data) = Len(load.data) - Len(StoredSeq)
    /\ \A k \in DOMAIN load.data :
         MissingDate(load.data[k]) => load.data[k] \notin StoredEvents

\* C13 witness: the flat collection [dated, undated] has been converted: one
\* item stored, one receipt skipped.
C13_Witness ==
  /\ MigrationComplete
  /\ load.data = <<1, 6>>
  /\ StoredSeq = <<1>>
  /\ MigrateSkipped(load.data) = 1

(***************************************************************************)
(* Claims about loads of a session that has data (checked under            *)
(* SpecRestart)                                                            *)
(***************************************************************************)
\* the running load reads, converts or deletes a legacy source
LoadMigrates ==
  \/ load.pc \in {"flat", "flatMeta", "blob", "migrate", "flatDelete",
                  "blobDelete"}
  \/ load.src # "none"

\* C14: Current shape is terminal -- a load whose listing of the day
\* buckets returned at least one bucket document attempts no migration: it
\* reads no legacy-flat document, legacy-blob document or local cache for
\* conversion, and converts and deletes none.
C14_CurrentShapeTerminal ==
  load.dates # << >> => ~LoadMigrates

(***************************************************************************)
(* Claims about sessions, pastes and saves (checked under SpecSessions)    *)
(***************************************************************************)
\* C15: During a session-start load the local cache is cleared only by the
\* load that has converted its contents into the sharded shape with
\* success; a load that did not migrate the cache never clears it.
C15_CacheClearedAfterMigration ==
  [][(LoadStep /\ localStorage.has /\ ~localStorage'.has) =>
       /\ load.src = "local"
       /\ load.data = localStorage.receipts
       /\ load'.committed = Len(MigrateOps(load.data))]_vars

\* clipboards whose text is not JSON, or is JSON of an unrecognized shape
ParseErrorInputs == {parsed \in PasteInputs : parsed.shape \in {"invalid", "other"}}

\* C18: Paste parse errors change nothing -- a paste of text that is not
\* valid JSON, or is JSON of an unrecognized shape, shows the user an error
\* and leaves the in-memory log, bounties, untagged bounties, local cache
\* and remote store unchanged.
C18_ParseErrorNoChange ==
  [][\A parsed \in ParseErrorInputs :
       HandlePaste(parsed, MaxLog) =>
         /\ alert' = "pasteFailed"
         /\ UNCHANGED <<memVars, localStorage, storeVars>>]_vars

(***************************************************************************)
(* Claims about pastes and their saves (checked under SpecSave)            *)
(***************************************************************************)
\* C16: Optimistic update without rollback -- when an authenticated paste
\* that adds events starts its save, the in-memory state already holds what
\* the save is about to persist; a commit that fails leaves the in-memory
\* log, bounties and untagged bounties as they were.
C16_OptimisticNoRollback ==
  [][/\ (user /\ Len(saves') > Len(saves)) =>
          LET s == saves'[Len(saves')]
          IN  /\ Len(s.newReceipts) > Len(receipts) \/ s.newUntagged # untaggedBounties
              /\ receipts' = s.newReceipts
              /\ bounties' = s.newBounties
              /\ untaggedBounties' = s.newUntagged
     /\ SaveFail => UNCHANGED memVars]_vars

\* C16 witness: a paste added a second receipt, its commit failed: the log
\* keeps the receipt, the store does not have it.
C16_Witness ==
  /\ saves = << >>
  /\ failures = 1
  /\ receipts = <<1, 2>>
  /\ StoredSeq = <<1>>

(***************************************************************************)
(* Claims about the whole system (checked under Spec)                      *)
(***************************************************************************)
\* C17: Bulk delete blocks new mutating operations -- from the start of a
\* bulk delete until it completes or fails the loading flag is set (so the
\* paste and clear buttons are not offered), whatever other asynchronous
\* operation was already running when the delete began.
C17_ClearHoldsLoading ==
  ClearRunning => isLoading

\* C19: A storage failure on a destructive path is surfaced as an alert --
\* whenever a remote read, write or delete fails during a bulk delete or
\* during a migration, the user is shown an alert.
C19_DestructiveFailureAlerted ==
  [][/\ (ClearFail \/ \E b \in DOMAIN clear.sub : ClearSubFail(b)) =>
          alert' # "none"
     /\ (LoadFail /\ LoadMigrates) => alert' # "none"]_vars

(***************************************************************************)
(* Claims about the day-bucket key (checked under SpecNormalize)           *)
(***************************************************************************)
\* p reads "<Month> <Day>": letters, then white space, then digits
IsMonthDay(p) ==
  \E i \in 1..Len(p), j \in 1..Len(p) :
    /\ i < j /\ j < Len(p)
    /\ \A k \in 1..i : p[k] \in Letters
    /\ \A k \in (i + 1)..j : p[k] \in Whitespace
    /\ \A k \in (j + 1)..Len(p) : p[k] \in Digits

\* the prefixes of ts that read "<Month> <Day>"
MonthDayPrefixes(ts) ==
  {p \in {SubSeq(ts, 1, k) : k \in 0..Len(ts)} : IsMonthDay(p)}

\* the leading "<Month> <Day>" of a timestamp that has one
LeadingMonthDay(ts) ==
  CHOOSE p \in MonthDayPrefixes(ts) :
    \A q \in MonthDayPrefixes(ts) : Len(q) <= Len(p)

\* C20: Bucket key stability -- two timestamps with the same leading
\* "<Month> <Day>" normalize to the same key whatever follows it, two
\* timestamps with different leading "<Month> <Day>" normalize to different
\* keys, and a timestamp that does not match the pattern normalizes to
\* itself.
C20_BucketKeyStability ==
  pd.stage = "done" =>
    /\ (MonthDayPrefixes(pd.a) # {} /\ MonthDayPrefixes(pd.b) # {}) =>
         (pd.keyA = pd.keyB <=> LeadingMonthDay(pd.a) = LeadingMonthDay(pd.b))
    /\ MonthDayPrefixes(pd.a) = {} => pd.keyA = pd.a
    /\ MonthDayPrefixes(pd.b) = {} => pd.keyB = pd.b

\* C20 witness: "Oct 18 1:15 PM" and "Oct 18 11:59 PM" have been normalized
\* to the one key "Oct 18".
C20_Witness ==
  /\ pd.stage = "done"
  /\ pd.a = TS_Oct18_0115PM
  /\ pd.b = TS_Oct18_1159PM
  /\ pd.keyA = <<"O", "c", "t", " ", "1", "8">>
  /\ pd.keyB = pd.keyA

(***************************************************************************)
(* Claims about the Statistics Engine (checked under SpecStats)            *)
(***************************************************************************)
\* the events of the log whose timestamp cannot be parsed
Unparsable(r) == ~parseReceiptDate(r, pd.in.now).ok

\* the parsed time of r lies within [now - 24h, now]
InLast24h(r) ==
  /\ parseReceiptDate(r, pd.in.now).ok
  /\ parseReceiptDate(r, pd.in.now).t >= pd.in.now - 24 * 60 * 60
  /\ parseReceiptDate(r, pd.in.now).t <= pd.in.now

\* C21: 24h filter exclusion -- an event whose timestamp cannot be parsed is
\* in the filtered event set under the "all time" filter and not in it under
\* the "last 24h" filter; under "last 24h" only the events whose parsed time
\* lies within [now - 24h, now] are kept.
C21_FilterExclusion ==
  pd.stage = "rendered" =>
    /\ pd.timeFilter = "all" =>
         \A k \in 1..Len(pd.in.receipts) :
           Unparsable(pd.in.receipts[k]) =>
             \E j \in 1..Len(pd.out.filteredReceipts) :
               pd.out.filteredReceipts[j] = pd.in.receipts[k]
    /\ pd.timeFilter = "24h" =>
         \A j \in 1..Len(pd.out.filteredReceipts) :
           /\ ~Unparsable(pd.out.filteredReceipts[j])
           /\ InLast24h(pd.out.filteredReceipts[j])

\* the claim of C21 for the revision src/unnamed/part_000 alone
C21_Part000Only == pd.revision = "part_000" => C21_FilterExclusion

\* the bounty windows of the render, as <<concept, position, window>>
BountyWindows ==
  UNION {{<<name, k, pd.out.conceptData[name].bountyWindows[k]>> :
            k \in 1..Len(pd.out.conceptData[name].bountyWindows)} :
           name \in DOMAIN pd.out.conceptData}

\* the bounty a window was computed from
BountyOf(w) == pd.in.bounties[w[1]][w[2]]

\* C22 as stated: ROI computation with guarded division -- for every bounty
\* tagged to a concept, ROI = ((windowEarnings - bountyAmount) / bountyAmount)
\* * 100 when bountyAmount > 0, and ROI = 0 whenever bountyAmount = 0.
C22_RoiAsStated ==
  pd.stage = "rendered" =>
    \A w \in BountyWindows :
      /\ w[3].amount > 0 =>
           w[3].roi * w[3].amount = (w[3].earned - w[3].amount) * 100
      /\ w[3].amount = 0 => w[3].roi = 0

\* C22 amended: for every bounty tagged to a concept of the filtered log,
\* when the bounty's timestamp can be parsed the ROI is
\* ((windowEarnings - bountyAmount) / bountyAmount) * 100 rounded to the
\* nearest integer if bountyAmount > 0 and is 0 if bountyAmount is 0; when
\* the bounty's timestamp cannot be parsed the window earns 0 and the ROI is
\* -100 whatever the amount.
C22_RoiRounded ==
  pd.stage = "rendered" =>
    \A w \in BountyWindows :
      IF parseReceiptDate(BountyOf(w), pd.in.now).ok
      THEN /\ w[3].amount > 0 =>
                /\ 2 * (w[3].roi * w[3].amount
                          - (w[3].earned - w[3].amount) * 100) <= w[3].amount
                /\ 2 * ((w[3].earned - w[3].amount) * 100
                          - w[3].roi * w[3].amount) <= w[3].amount
           /\ w[3].amount = 0 => w[3].roi = 0
      ELSE w[3].earned = 0 /\ w[3].roi = -100

\* C22 witness: a bounty of 100 whose window earned 150 has ROI 50, next to
\* a bounty of 0 with ROI 0.
C22_Witness ==
  /\ pd.stage = "rendered"
  /\ \E w \in BountyWindows :
       w[3].amount = 100 /\ w[3].earned = 150 /\ w[3].roi = 50
  /\ \E w \in BountyWindows :
       /\ parseReceiptDate(BountyOf(w), pd.in.now).ok
       /\ w[3].amount = 0 /\ w[3].roi = 0

\* the amounts of the filtered log in reversed order (an event without an
\* amount counts 0)
ReversedAmounts ==
  [i \in 1..Len(pd.out.filteredReceipts) |->
     LET r == pd.out.filteredReceipts[Len(pd.out.filteredReceipts) + 1 - i]
     IN  IF r.hasClout THEN r.clout ELSE 0]

\* the sum of the first i elements of a sequence of numbers
RECURSIVE PrefixSum(_, _)
PrefixSum(amounts, i) ==
  IF i = 0 THEN 0 ELSE PrefixSum(amounts, i - 1) + amounts[i]

\* C23: Cumulative flow -- the series is computed over the filtered log in
\* reversed order; its i-th entry carries the i-th reversed event's own
\* amount and a running total equal to the sum of the reversed amounts at
\* indices 0..i, also when an intermediate running total is 0.
C23_CumulativeFlow ==
  pd.stage = "rendered" =>
    /\ Len(pd.out.cloutFlow) = Len(pd.out.filteredReceipts)
    /\ \A i \in 1..Len(pd.out.cloutFlow) :
         /\ pd.out.cloutFlow[i].index = i - 1
         /\ pd.out.cloutFlow[i].clout = ReversedAmounts[i]
         /\ pd.out.cloutFlow[i].total = PrefixSum(ReversedAmounts, i)

\* C23 witness: the reversed amounts [10, -5, 20] have been rendered with the
\* running totals [10, 5, 25].
C23_Witness ==
  /\ pd.stage = "rendered"
  /\ ReversedAmounts = <<10, -5, 20>>
  /\ [i \in 1..Len(pd.out.cloutFlow) |-> pd.out.cloutFlow[i].total] = <<10, 5, 25>>

\* the flow of a log whose running total passes through 0
C23_ZeroTotalReached ==
  /\ pd.stage = "rendered"
  /\ ReversedAmounts = <<10, -10, 20>>
  /\ [i \in 1..Len(pd.out.cloutFlow) |-> pd.out.cloutFlow[i].total] = <<10, 0, 20>>

(***************************************************************************)
(* Claims about the order of the legacy sources (checked under SpecMigrate)*)
(***************************************************************************)
\* the first legacy source present, in the order flat, blob, local cache
FirstPresent ==
  IF legacyReceipts # << >> THEN "flat"
  ELSE IF userData.exists THEN "blob"
  ELSE IF localStorage.has THEN "local"
  ELSE "none"

\* C24: Detection order, first match wins -- when the current shape is empty
\* at session start, exactly one source is converted in that load, chosen in
\* the order legacy-flat, then legacy-blob, then local cache; a lower-priority
\* source that is also present is neither converted nor deleted in that load.
C24_FirstMatchWins ==
  [][(LoadRunning /\ load.pc # "dates" /\ load.dates = << >>) =>
       /\ (load.src = "none" /\ load'.src # "none") => load'.src = FirstPresent
       /\ load.src # "none" => load'.src = load.src
       /\ load'.src = "flat" =>
            /\ load'.data = legacyReceipts
            /\ userData' = userData /\ localStorage' = localStorage
       /\ load'.src = "blob" =>
            /\ load'.data = userData.receipts
            /\ legacyReceipts' = legacyReceipts /\ localStorage' = localStorage
       /\ load'.src = "local" =>
            /\ load'.data = localStorage.receipts
            /\ legacyReceipts' = legacyReceipts /\ userData' = userData
       /\ load'.src = "none" =>
            /\ legacyReceipts' = legacyReceipts
            /\ userData' = userData /\ localStorage' = localStorage
            /\ UNCHANGED <<receipts_by_date, items>>
            /\ load'.pc = "done" => FirstPresent = "none"]_vars

\* C24 witness: a load that found the current shape empty has completed the
\* conversion of the flat collection and deleted it, while the blob document
\* and the local cache, also present, are still there.
C24_Witness ==
  /\ load.pc = "done" /\ load.dates = << >> /\ load.src = "flat"
  /\ legacyReceipts = << >> /\ items # << >>
  /\ userData.exists /\ localStorage.has

(***************************************************************************)
(* Claims about the size of the commits (checked under SpecBatches)        *)
(***************************************************************************)
\* number of item documents stored under bucket b
ItemCount(its, b) == IF b \in DOMAIN its THEN Cardinality(DOMAIN its[b]) ELSE 0

\* C25: Chunked commits stay under the store ceiling -- every commit issued
\* by the migration conversion write contains at most 450 operations (every
\* commit but the last exactly 450), and every commit issued while deleting
\* one bucket during bulk delete contains at most 499 operations.
C25_ChunkedCommits ==
  [][/\ (load.pc = "migrate" /\ load'.committed # load.committed) =>
          /\ load'.committed - load.committed <= 450
          /\ load'.pc = "migrate" => load'.committed - load.committed = 450
     /\ \A b \in DOMAIN clear.sub \cap DOMAIN clear'.sub :
          (clear.sub[b].pc = "deleting" /\ clear'.sub[b] # clear.sub[b]
             /\ clear'.sub[b].pc # "failed") =>
            /\ (clear'.sub[b].done - clear.sub[b].done)
                 + (IF clear'.sub[b].pc = "done" THEN 1 ELSE 0) <= 499
            /\ ItemCount(items, b) - ItemCount(items', b)
                 = clear'.sub[b].done - clear.sub[b].done]_vars

\* C25 witness: the conversion of 500 receipts of one day has been committed
\* in two batches (450 operations, then the rest and the metadata), and the
\* deletion of their bucket has committed its first batch of 499 items.
C25_Witness ==
  /\ load.pc = "done" /\ load.src = "flat" /\ load.committed > 450
  /\ \E b \in DOMAIN clear.sub :
       /\ clear.sub[b].pc = "deleting"
       /\ clear.sub[b].done = 499
       /\ ItemCount(items, b) = Len(clear.sub[b].snap) - 499

\* C26: deleting the legacy-flat source after conversion never exceeds the
\* store's per-batch ceiling -- whatever the number of legacy documents, the
\* batch of deletions the load is about to commit holds at most 500
\* operations (one batch.delete per document of the old collection).
C26_FlatDeleteWithinCeiling ==
  load.pc = "flatDelete" => Len(load.data) <= StoreBatchCeiling


(***************************************************************************)
(* Claims about the fan-out of the bulk delete (checked under SpecFanout)  *)
(***************************************************************************)
\* number of the group of the i-th enumerated bucket: the buckets are cut,
\* in the order of the listing, into groups of 10 (the first group is 0)
GroupOf(i) == (i - 1) \div 10

\* the state of the task of the i-th enumerated bucket
TaskPc(i) == clear.sub[clear.docs[i]].pc

\* the buckets whose deletion by the current bulk delete is in flight
InFlight == {b \in DOMAIN clear.sub : SubRunning(b)}

C27_TenInFlight == Cardinality(InFlight) = 10

\* the bucket documents a step removes from the store
BucketsGone == DOMAIN receipts_by_date \ DOMAIN receipts_by_date'

C28_AboveTotal == deleteProgressRef.current > deleteProgressRef.total

\* a delete has failed and tasks of its group are still running while the
\* buttons are enabled again (the states SpecOverlap starts in)
C28_OverlapStart ==
  /\ clear.pc = "failed"
  /\ ~isLoading
  /\ \E b \in DOMAIN clear.sub : SubRunning(b)
  /\ \E b \in DOMAIN clear.sub : clear.sub[b].pc = "failed"
  /\ receipts_by_date = DateDocsAfter(<< >>, MigrateOps(<<1, 3>>))
  /\ deleteProgressRef = [current |-> 0, total |-> 2]
  /\ poll = [current |-> FALSE, leaked |-> TRUE]

\* the deletion of every enumerated bucket has committed: every task of the
\* delete is done and no enumerated bucket document is left in the store
AllBucketsDeleted ==
  \A i \in 1..Len(clear.docs) :
    TaskPc(i) = "done" /\ clear.docs[i] \notin DOMAIN receipts_by_date

\* a task of the delete has failed
SomeBucketFailed == \E b \in DOMAIN clear.sub : clear.sub[b].pc = "failed"

\* C29: metadata reset is ordered last in bulk delete -- the commit that
\* overwrites the metadata document is issued (and the document changes)
\* only after the deletion of every enumerated bucket has committed; if any
\* bucket deletion fails, the metadata document is not overwritten.
C29_MetadataLast ==
  /\ []((clear.pc = "meta") => AllBucketsDeleted)
  /\ [][(metadata' # metadata) => (clear.pc = "meta" /\ AllBucketsDeleted)]_vars
  /\ [][SomeBucketFailed => (metadata' = metadata /\ clear'.pc # "meta")]_vars

\* C29 witness: all eleven enumerated buckets are gone and the metadata
\* document, which held an untagged bounty, has been overwritten.
C29_Witness ==
  /\ clear.pc = "done"
  /\ Len(clear.docs) = 11
  /\ receipts_by_date = << >>
  /\ metadata = [exists |-> TRUE, bounties |-> EmptyObject,
                 untaggedBounties |-> << >>]

\* a call of the last group has failed: the metadata document still holds
\* the untagged bounty
C29_FailedKeepsMetadata ==
  /\ SomeBucketFailed
  /\ clear.pc = "failed"
  /\ \A b \in DOMAIN clear.sub : ~SubRunning(b)
  /\ metadata.untaggedBounties = <<4>>

(***************************************************************************)
(* Claims about tagging (checked under SpecTag)                            *)
(***************************************************************************)
\* number of bounties, tagged and untagged
RECURSIVE SumLens(_, _)
SumLens(f, S) ==
  IF S = {} THEN 0
  ELSE Len(f[CHOOSE c \in S : TRUE]) + SumLens(f, S \ {CHOOSE c \in S : TRUE})

TotalBounties(tagged, untagged) == Len(untagged) + SumLens(tagged, DOMAIN tagged)

\* a step of handleAddBounty up to its await: nothing else changes the
\* tagged bounties under SpecTag
Assigns == bounties' # bounties

\* C30: tagging a bounty moves exactly one bounty -- assigning the selected
\* untagged bounty to a concept appends one bounty with that bounty's amount
\* and timestamp to the concept's list and removes exactly that bounty from
\* the untagged list, so the total number of bounties (tagged plus untagged)
\* is unchanged and the in-memory event log is unchanged.
C30_TagMovesOne ==
  [][Assigns =>
       \E i \in 1..Len(untaggedBounties) :
         /\ i = pd.selectedBounty.index + 1
         /\ untaggedBounties[i] = pd.selectedBounty.r
         /\ untaggedBounties' = FilterIndex(untaggedBounties, i - 1)
         /\ bounties' = SetAt(bounties, pd.selectedConcept,
                              Append(IF pd.selectedConcept \in DOMAIN bounties
                                     THEN bounties[pd.selectedConcept] ELSE << >>,
                                     [amount |-> Receipt(untaggedBounties[i]).clout,
                                      date |-> Receipt(untaggedBounties[i]).date]))
         /\ TotalBounties(bounties', untaggedBounties')
              = TotalBounties(bounties, untaggedBounties)
         /\ receipts' = receipts]_vars

(***************************************************************************)
(* C31                                                                     *)
(***************************************************************************)
\* the positions of the filtered log whose event has the concept
ConceptEvents(name) ==
  {k \in 1..Len(pd.out.filteredReceipts) : pd.out.filteredReceipts[k].concept = name}

\* the amount of the event at a position of the filtered log
RECURSIVE SumAmounts(_)
SumAmounts(positions) ==
  IF positions = {} THEN 0
  ELSE LET k == CHOOSE x \in positions : TRUE
       IN  (IF pd.out.filteredReceipts[k].hasClout
            THEN pd.out.filteredReceipts[k].clout ELSE 0)
             + SumAmounts(positions \ {k})

\* all the bounties tagged to the concept
TaggedTo(name) ==
  IF name \in DOMAIN pd.in.bounties THEN pd.in.bounties[name] ELSE << >>

\* the amounts of the first n bounties tagged to the concept
RECURSIVE SumTagged(_, _)
SumTagged(name, n) ==
  IF n = 0 THEN 0 ELSE TaggedTo(name)[n].amount + SumTagged(name, n - 1)

\* C31: in every render, each concept with at least one event in the
\* filtered log has an entry whose total income is the sum of the amounts of
\* the filtered events of the concept, whose net income is that total minus
\* the amounts of all the bounties tagged to the concept, and which is marked
\* profitable exactly when the net income is above zero.
C31_NetIncome ==
  pd.stage = "rendered" =>
    \A k \in 1..Len(pd.out.filteredReceipts) :
      \E name \in {pd.out.filteredReceipts[k].concept} :
        name # "" =>
          /\ name \in DOMAIN pd.out.conceptData
          /\ pd.out.conceptData[name].clout = SumAmounts(ConceptEvents(name))
          /\ pd.out.conceptData[name].netIncome
               = SumAmounts(ConceptEvents(name)) - SumTagged(name, Len(TaggedTo(name)))
          /\ pd.out.conceptData[name].profitable
               <=> (SumAmounts(ConceptEvents(name)) - SumTagged(name, Len(TaggedTo(name))) > 0)

\* a render under the 24-hour filter with a concept that earned 150 from one
\* event left by the filter and has a bounty of 100 tagged: net income 50
C31_Witness ==
  /\ pd.stage = "rendered"
  /\ pd.timeFilter = "24h"
  /\ Len(pd.out.filteredReceipts) < Len(pd.in.receipts)
  /\ "neon" \in DOMAIN pd.out.conceptData
  /\ pd.out.conceptData["neon"].clout = 150
  /\ pd.out.conceptData["neon"].bountyCost = 100
  /\ pd.out.conceptData["neon"].profitable

\* a render of a concept whose income equals its bounty cost: not profitable
C31_BreakEven ==
  /\ pd.stage = "rendered"
  /\ "neon" \in DOMAIN pd.out.conceptData
  /\ pd.out.conceptData["neon"].netIncome = 0
  /\ ~pd.out.conceptData["neon"].profitable

(***************************************************************************)
(* C32 (checked under SpecParse)                                           *)
(***************************************************************************)
\* the hour of the day of the timestamp the text was written from
Hour24(f) ==
  IF f.pm THEN (IF f.h = 12 THEN 12 ELSE f.h + 12)
  ELSE (IF f.h = 12 THEN 0 ELSE f.h)

\* the instant of the timestamp in the current year
InCurrentYear(f) == MakeDate(f.month - 1, f.day, Hour24(f), f.mm)

\* C32: a timestamp of the format "<Mon> <day> <h>:<mm> <AM|PM>" parses to
\* its instant in the current year in 24-hour time (12 AM is hour 0, 12 PM is
\* hour 12, other PM hours add 12), moved back one year if that instant is
\* later than now, so the parsed instant is never later than now; a text the
\* format does not match parses to no date.
C32_ParseTimestamp ==
  pd.stage = "parsed" =>
    IF pd.in.stamp.matching
    THEN /\ pd.out.ok
         /\ pd.out.t = IF InCurrentYear(pd.in.stamp) > pd.in.now
                       THEN InCurrentYear(pd.in.stamp) - YearSeconds
                       ELSE InCurrentYear(pd.in.stamp)
         /\ pd.out.t <= pd.in.now
    ELSE ~pd.out.ok

\* "Dec 31 12:15 AM" parsed on Oct 19: hour 0 of Dec 31 of the year before
C32_Witness ==
  /\ pd.stage = "parsed"
  /\ pd.in.stamp.matching
  /\ pd.in.stamp.month = 12 /\ pd.in.stamp.h = 12 /\ ~pd.in.stamp.pm
  /\ pd.in.now = Now_Oct19_0115PM
  /\ pd.out.ok
  /\ pd.out.t = MakeDate(11, 31, 0, 15) - YearSeconds

\* a timestamp of the very minute of now stays in the current year
C32_AtNow ==
  /\ pd.stage = "parsed"
  /\ pd.in.stamp.matching
  /\ pd.out.ok
  /\ pd.out.t = pd.in.now

\* a text without AM or PM has no date
C32_NoDate ==
  /\ pd.stage = "parsed"
  /\ pd.in.r.date = TS_NoMeridiem
  /\ ~pd.out.ok

(***************************************************************************)
(* C33                                                                     *)
(***************************************************************************)
\* the positions of the item documents stored under bucket id
ItemPositions(id) == IF id \in DOMAIN items THEN DOMAIN items[id] ELSE {}

\* C33: in every state where no save, migration or delete is in flight, each
\* day-bucket document's itemCount equals the number of item documents stored
\* under it, and those items occupy exactly the positions 0..itemCount-1.
C33_CountMatchesContents ==
  Quiet =>
    \A id \in DOMAIN receipts_by_date :
      /\ Cardinality(ItemPositions(id)) = receipts_by_date[id]
      /\ ItemPositions(id) = 0..(receipts_by_date[id] - 1)

(***************************************************************************)
(* C34 (checked under SpecNormalize)                                       *)
(***************************************************************************)
\* C34: two events whose normalized day-bucket keys differ (a key may be a
\* raw timestamp the pattern does not match) are stored under different
\* sanitized shard ids.
C34_DistinctShards ==
  (pd.stage = "done" /\ pd.keyA # pd.keyB) => dateId(pd.keyA) # dateId(pd.keyB)

\* the keys "Oct 18" and "Oct-18" differ and are both stored under "Oct_18"
C34_SharedShard ==
  /\ pd.stage = "done"
  /\ pd.keyA = <<"O","c","t"," ","1","8">>
  /\ pd.keyB = TS_Oct18_Dash
  /\ dateId(pd.keyA) = dateId(pd.keyB)

(***************************************************************************)
(* C35                                                                     *)
(***************************************************************************)
\* C35: from a completed session-start load on, whenever every save of the
\* authenticated pastes has succeeded and completed, the events stored as
\* items are, as a multiset, the events of the in-memory log that have a
\* non-empty timestamp.
C35_MemoryMirrorsStore ==
  (user /\ load.pc = "done" /\ saves = << >> /\ failures = 0)
    => SameEvents(StoredSeq, DatedOnly(receipts))

\* the same for sessions whose load did not convert a legacy blob
C35_BlobApart ==
  load.src # "blob" => C35_MemoryMirrorsStore

\* the load converted a legacy blob and a paste of another receipt has been
\* saved: the store holds both events, the log only the pasted one
C35_AfterPaste ==
  /\ user /\ load.pc = "done" /\ load.src = "blob" /\ saves = << >> /\ failures = 0
  /\ receipts = <<1>>
  /\ Len(StoredSeq) = 2

(***************************************************************************)
(* C36 (checked under SpecPaste)                                           *)
(***************************************************************************)
\* a is b with some of its elements left out
RECURSIVE IsSubseq(_, _)
IsSubseq(a, b) ==
  IF a = << >> THEN TRUE
  ELSE IF b = << >> THEN FALSE
  ELSE IF Head(a) = Head(b) THEN IsSubseq(Tail(a), Tail(b))
  ELSE IsSubseq(a, Tail(b))

\* the receipts the item writes of a save carry
WrittenReceipts(s) ==
  LET writes == SelectSeq(SaveOps(s.receipts, s.newReceipts), LAMBDA o : o.t = "item")
  IN  [k \in 1..Len(writes) |-> writes[k].r]

\* the events of the log after the step that lie past the length before it
PastOldLength == SubSeq(receipts', Len(receipts) + 1, Len(receipts'))

\* the log before the step is a prefix of the log after it, and a save the
\* step starts writes exactly the events past the old length
AppendsOnly ==
  /\ Len(receipts') >= Len(receipts)
  /\ SubSeq(receipts', 1, Len(receipts)) = receipts
  /\ saves' # saves =>
       /\ Len(saves') = Len(saves) + 1
       /\ SubSeq(saves', 1, Len(saves)) = saves
       /\ saves'[Len(saves')].newReceipts = receipts'
       /\ SameEvents(WrittenReceipts(saves'[Len(saves')]), PastOldLength)

\* the added events are events of the clipboard `parsed`, in its order
InIncomingOrder(parsed) ==
  IF parsed.shape \in {"object", "array"}
  THEN IsSubseq(PastOldLength, parsed.receipts)
  ELSE PastOldLength = << >>

\* C36: in every paste the log before the paste is an unchanged prefix of
\* the log after it and the added events follow it in their incoming order;
\* the save the paste starts writes exactly the events past the pre-paste
\* length.  (Stated of every step that is a paste of some clipboard.)
C36_PasteAppends ==
  [][/\ AppendsOnly \/ ~(\E parsed \in PasteInputs : HandlePaste(parsed, MaxLog))
     /\ \A parsed \in PasteInputs :
          InIncomingOrder(parsed) \/ ~HandlePaste(parsed, MaxLog)]_vars

\* an authenticated paste has added one event behind a log of one event and
\* its save is pending
C36_Witness ==
  /\ user
  /\ alert = "added"
  /\ Len(saves) = 1
  /\ Len(saves[1].receipts) = 1
  /\ receipts = saves[1].newReceipts
  /\ Len(receipts) = 2
  /\ SubSeq(receipts, 1, 1) = saves[1].receipts

(***************************************************************************)
(* C37 (checked under Spec)                                                *)
(***************************************************************************)
\* a save that writes added events has neither committed nor failed
SavePending ==
  \E k \in 1..Len(saves) :
    AddedReceipts(saves[k].receipts, saves[k].newReceipts) # << >>

\* C37: after a paste that adds events, while its save has neither committed
\* nor failed the loading flag is set, and no bulk delete is listing or
\* deleting buckets.
C37_SaveHoldsLoading ==
  SavePending => (isLoading /\ ~ClearRunning)

\* a bulk delete is listing the buckets while the save of a paste is pending
C37_ClearOverSave ==
  /\ SavePending
  /\ clear.pc = "dates"

(***************************************************************************)
(* C38 (checked under SpecClear)                                           *)
(***************************************************************************)
\* C38: once a bulk delete has completed or failed, no progress timer is
\* left that takes snapshots of the counter, and the displayed progress is
\* 0 of 0.
C38_PollingStops ==
  clear.pc \in {"done", "failed"} =>
    /\ ~poll.current
    /\ ~poll.leaked
    /\ deleteProgress = NoProgress

\* a bulk delete has failed and been reported, and the timer it left behind
\* has put the counter of the failed delete back on display
C38_StaleProgress ==
  /\ clear.pc = "failed"
  /\ ~isLoading
  /\ poll.leaked
  /\ deleteProgress.total > 0

\* a bulk delete that completed leaves no timer and shows 0 of 0
C38_AfterSuccess ==
  /\ clear.pc = "done"
  /\ ~poll.current /\ ~poll.leaked
  /\ deleteProgress = NoProgress
  /\ deleteProgressRef.total > 0

(***************************************************************************)
(* C39 (checked under FairSpec)                                            *)
(***************************************************************************)
\* once no operation is in flight the loading flag is false
QuietReleased == Quiet => ~isLoading

\* C39: every session-start load, paste, save and bulk delete in flight
\* eventually terminates, given that every remote call eventually returns or
\* fails, and whenever no operation is in flight the loading flag is false.
C39_EndsAndReleases ==
  /\ [](Quiet => ~isLoading)
  /\ (~Quiet) ~> Quiet

\* a bulk delete was started over the pending save of a paste
C39_Witness ==
  /\ saves # << >>
  /\ ClearRunning
  /\ isLoading
=============================================================================
